---- MODULE Spec2Model ----
(***************************************************************************)
(* The per-connection relay of websockify.go: ServeHTTP (upgrade, dial),   *)
(* handleConnection (the supervisor), forwardTCP (TCP -> WS) and           *)
(* forwardWeb (WS -> TCP), with the two peers and the owner of the request *)
(* context as the environment.  Beside it: the relay of a second request   *)
(* in three steps, panics inside the forwarders, Serve with its shutdown   *)
(* goroutine as cmd/websockify's main runs it, and the message and pixel   *)
(* functions of package rfb.                                               *)
(*                                                                         *)
(* Byte streams are kept by position: a chunk [off |-> o, n |-> k] stands  *)
(* for the k bytes at positions o+1 .. o+k of the stream its producer      *)
(* injected.                                                               *)
(***************************************************************************)
EXTENDS Integers, Sequences, FiniteSets, TLC

\* ---------------------------------------------------------------- bounds
\* chunks and messages the two peers send in all
MaxSends == 1

\* ------------------------------------------------------ program constants
TcpBufferSize == 1024
DoneCap == 2

\* ------------------------------------------------------- input alphabets
Origins == {"", "http://a"}
\* Origin values of a request to the host proxy:6080: none or empty, the
\* host's own, another site's, and the opaque origin
SameHostOrigin == "http://proxy:6080"
AnyOrigins == {"", SameHostOrigin, "https://other.example", "null"}
TcpChunkSizes == {1, 1025}
WsMsgSizes == {1500}
WsMsgTypes == {"text", "binary"}
WsPeerEnds == {"normal", "goingaway", "abnormal", "fault"}
\* what a timed-out wsConn.ReadMessage leaves of the conn's read side: failed
\* for good (the websocket package keeps a read error, a timeout too), or
\* usable again
StickyReadErr == {TRUE, FALSE}
\* bytes of the payload a failed tcpConn.Write has put through
ShortWrites == {0, 1}

\* A path is the sequence of its parts between slashes: "/work" is
\* <<"", "work">>, "." is <<".">>, "/work/" is <<"", "work", "">>; the empty
\* string has no part.
NoPath == <<>>
\* what os.Getwd returns
Cwd == <<"", "work">>
\* values of Config.WebRoot
WebRoots == {NoPath, Cwd, <<".">>, <<"", "work", "">>, <<"web">>,
             <<"", "srv", "www">>}
\* message types given to GetMessageLength: the six client messages, and
\* types that are none
MessageTypes == {0, 1, 2, 3, 4, 5, 6, 7, 255}
\* lengths of the data given to GetMessageLength
DataLens == {0, 3, 4, 7, 8, 10}
\* values of the two count bytes of SetEncodings, of the top byte of the
\* ClientCutText length (lengths stay below 2^31) and of its other bytes
CountBytes == {0, 1, 255}
TopBytes == {0, 1, 64}
LowBytes == {0, 255}
\* values of the 8-bit and 16-bit fields of a PixelFormat
MaxValues == {0, 255, 256, 65535}
Paddings == {<<0, 0, 0>>, <<1, 2, 3>>}
\* lengths of the data given to ParseSetPixelFormat
RawLens == {0, 19, 20, 21}
\* values the two channels of a pixel take that do not run through 0 .. 255
ChannelSamples == {0, 41, 255}

\* os.Getwd fails
GetwdFails == {TRUE, FALSE}
\* net.Listen on Config.Listener fails
BindFails == {TRUE, FALSE}

VARIABLES
    origin,          \* Origin header of the request
    handshakeOK,     \* the request is otherwise a valid upgrade request
    hpc,             \* position of ServeHTTP
    dials,           \* number of net.Dial calls
    wsState,         \* "none" | "open" | "closed" : the server's WebSocket conn
    tcpState,        \* "none" | "open" | "closed" : the server's TCP conn
    wsCloses,        \* number of Close calls on the WebSocket conn
    tcpCloses,       \* number of Close calls on the TCP conn
    parentCancelled, \* r.Context() is cancelled
    cancelCalled,    \* handleConnection's cancel() has run
    supPc,           \* position of handleConnection
    done,            \* number of signals buffered in the done channel
    fTpc, fTwhy,     \* forwardTCP: position, why it is leaving its loop
    fWpc, fWwhy,     \* forwardWeb: position, why it is leaving its loop
    wsReadErr,       \* a ReadMessage has timed out and left the conn's read
                     \* side failed
    fWerr,           \* the error of the client's end ReadMessage has
                     \* returned to forwardWeb, "none" before and after
    tcpPeer,         \* "open" | "gone"
    tcpSends,        \* number of chunks the TCP peer has sent
    tcpSent,         \* number of bytes the TCP peer has sent
    tcpReads,        \* the successful tcpConn.Read results, in order
    tcpBuffer,       \* the slice tcpBuffer[0:n] of the last read
    wsOut,           \* the messages WriteMessage has sent, in order
    wsPeer,          \* "open" | "gone"
    wsSends,         \* number of messages the WebSocket client has sent
    wsSent,          \* number of payload bytes the WebSocket client has sent
    wsIn,            \* messages received from the client, not yet read
    wsReads,         \* the messages ReadMessage has returned, in order
    buffer,          \* the payload ReadMessage last returned
    tcpOut,          \* the payloads written to the TCP conn, in order
    other,           \* the relay of a second request on the same Server:
                     \* "none" | "up" | "stopping" | "down"
    srv,             \* the http.Server of Serve: "none" (not serving) |
                     \* "listening" | "closed" (Close has been called)
    lis,             \* the listening socket: "none" | "open" | "closed"
    webRoot,         \* Config.WebRoot
    sPc,             \* position of Serve; "none": not called, the Server
                     \* is mounted as a handler elsewhere
    sCtx,            \* the ctx given to Serve is cancelled
    gPc,             \* Serve's shutdown goroutine: "none" | "waiting" | "done"
    routes,          \* the patterns registered on Serve's mux
    logs,            \* the lines Serve has logged, in order
    sErr,            \* what Serve has returned
    exit,            \* exit code of the process run by cmd/websockify's main
    messageType,     \* package rfb: the message type given to a call
    data,            \* package rfb: the bytes given to a call
    pf,              \* package rfb: the PixelFormat given to a call
    ret,             \* package rfb: the last call made and what it returned
    stream,          \* mock VNC server: the bytes its client has sent and
                     \* conn.Read has not returned yet
    vncBuffer,       \* mock VNC server: vncConn.buffer
    handled,         \* mock VNC server: the messages handleVNCMessage has
                     \* been given, in order
    vncPc            \* mock VNC server: handleVNCConnection is "idle" (no
                     \* connection) | "reading" | "failed" | "ended"

vars == <<origin, handshakeOK, hpc, dials, wsState, tcpState, wsCloses,
          tcpCloses, parentCancelled, cancelCalled, supPc, done,
          fTpc, fTwhy, fWpc, fWwhy, wsReadErr, fWerr, tcpPeer, tcpSends, tcpSent,
          tcpReads, tcpBuffer, wsOut, wsPeer, wsSends, wsSent, wsIn, wsReads,
          buffer, tcpOut, other, srv, lis, webRoot, sPc, sCtx, gPc, routes,
          logs, sErr, exit, messageType, data, pf, ret, stream, vncBuffer,
          handled, vncPc>>

serveVars == <<srv, lis, webRoot, sPc, sCtx, gPc, routes, logs, sErr, exit>>

rfbVars == <<messageType, data, pf, ret>>

mockVars == <<stream, vncBuffer, handled, vncPc>>

serverVars == <<other, serveVars, rfbVars, mockVars>>

\* the variables of the relay modelled step by step
relayVars == <<origin, handshakeOK, hpc, dials, wsState, tcpState, wsCloses,
               tcpCloses, parentCancelled, cancelCalled, supPc, done,
               fTpc, fTwhy, fWpc, fWwhy, wsReadErr, fWerr, tcpPeer, tcpSends,
               tcpSent, tcpReads, tcpBuffer, wsOut, wsPeer, wsSends, wsSent,
               wsIn, wsReads, buffer, tcpOut>>

handlerVars == <<origin, handshakeOK, hpc, dials>>
connVars == <<wsState, tcpState, wsCloses, tcpCloses>>
ctxVars == <<parentCancelled, cancelCalled>>
supVars == <<supPc>>
fTVars == <<fTpc, fTwhy>>
fWVars == <<fWpc, fWwhy, wsReadErr, fWerr>>
tcpInVars == <<tcpPeer, tcpSends, tcpSent>>
t2wVars == <<tcpReads, tcpBuffer, wsOut>>
wsInVars == <<wsPeer, wsSends, wsSent, wsIn>>
w2tVars == <<wsReads, buffer, tcpOut>>

NoChunk == [off |-> 0, n |-> 0]

Min(a, b) == IF a < b THEN a ELSE b

\* ------------------------------------------------------------ package rfb
\* Byte slices are sequences; At(d, i) is the Go d[i].

Byte == 0 .. 255

At(d, i) == d[i + 1]

RECURSIVE BitAnd(_, _)
\* a & b
BitAnd(a, b) ==
    IF a = 0 \/ b = 0 THEN 0
    ELSE (a % 2) * (b % 2) + 2 * BitAnd(a \div 2, b \div 2)

RECURSIVE BitOr(_, _)
\* a | b
BitOr(a, b) ==
    IF a = 0 THEN b
    ELSE IF b = 0 THEN a
    ELSE (IF a % 2 = 1 \/ b % 2 = 1 THEN 1 ELSE 0)
         + 2 * BitOr(a \div 2, b \div 2)

\* v << k and v >> k on values that stay below 2^31, as every value of the
\* inputs taken here does
Shl(v, k) == v * 2^k

Shr(v, k) == v \div 2^k

Uint8(v) == v % 256

Uint16(v) == v % 65536

\* client-to-server message types and message lengths
SetPixelFormat == 0
SetEncodings == 2
FramebufferUpdateRequest == 3
KeyEvent == 4
PointerEvent == 5
ClientCutText == 6
SetPixelFormatLength == 20

DefaultPixelFormat ==
    [BitsPerPixel |-> 32, Depth |-> 24, BigEndianFlag |-> 0,
     TrueColorFlag |-> 1, RedMax |-> 255, GreenMax |-> 255, BlueMax |-> 255,
     RedShift |-> 16, GreenShift |-> 8, BlueShift |-> 0,
     Padding |-> <<0, 0, 0>>]

RGB565PixelFormat ==
    [BitsPerPixel |-> 16, Depth |-> 16, BigEndianFlag |-> 0,
     TrueColorFlag |-> 1, RedMax |-> 31, GreenMax |-> 63, BlueMax |-> 31,
     RedShift |-> 11, GreenShift |-> 5, BlueShift |-> 0,
     Padding |-> <<0, 0, 0>>]

\* the zero value PixelFormat{}
ZeroPixelFormat ==
    [BitsPerPixel |-> 0, Depth |-> 0, BigEndianFlag |-> 0,
     TrueColorFlag |-> 0, RedMax |-> 0, GreenMax |-> 0, BlueMax |-> 0,
     RedShift |-> 0, GreenShift |-> 0, BlueShift |-> 0,
     Padding |-> <<0, 0, 0>>]

\* GetMessageLength with the two count bytes taken low byte first
GetMessageLength_LowFirst(mt, d) ==
    CASE mt = SetPixelFormat -> [n |-> SetPixelFormatLength, err |-> FALSE]
      [] mt = SetEncodings ->
            IF Len(d) < 4 THEN [n |-> 0, err |-> TRUE]
            ELSE [n |-> 4 + (BitOr(Shl(At(d, 3), 8), At(d, 2))) * 4,
                  err |-> FALSE]
      [] mt = FramebufferUpdateRequest -> [n |-> 10, err |-> FALSE]
      [] mt = KeyEvent -> [n |-> 8, err |-> FALSE]
      [] mt = PointerEvent -> [n |-> 6, err |-> FALSE]
      [] mt = ClientCutText ->
            IF Len(d) < 8 THEN [n |-> 0, err |-> TRUE]
            ELSE [n |-> 8 + BitOr(BitOr(Shl(At(d, 4), 24), Shl(At(d, 5), 16)),
                                  BitOr(Shl(At(d, 6), 8), At(d, 7))),
                  err |-> FALSE]
      [] OTHER -> [n |-> 0, err |-> TRUE]

\* GetMessageLength(messageType, data): the length and whether the error is
\* non-nil
GetMessageLength(mt, d) ==
    CASE mt = SetPixelFormat -> [n |-> SetPixelFormatLength, err |-> FALSE]
      [] mt = SetEncodings ->
            IF Len(d) < 4 THEN [n |-> 0, err |-> TRUE]
            ELSE [n |-> 4 + (BitOr(Shl(At(d, 2), 8), At(d, 3))) * 4,
                  err |-> FALSE]
      [] mt = FramebufferUpdateRequest -> [n |-> 10, err |-> FALSE]
      [] mt = KeyEvent -> [n |-> 8, err |-> FALSE]
      [] mt = PointerEvent -> [n |-> 6, err |-> FALSE]
      [] mt = ClientCutText ->
            IF Len(d) < 8 THEN [n |-> 0, err |-> TRUE]
            ELSE [n |-> 8 + BitOr(BitOr(Shl(At(d, 4), 24), Shl(At(d, 5), 16)),
                                  BitOr(Shl(At(d, 6), 8), At(d, 7))),
                  err |-> FALSE]
      [] OTHER -> [n |-> 0, err |-> TRUE]

\* ParseSetPixelFormat with the three trailing bytes dropped
ParseSetPixelFormat_NoPadding(d) ==
    IF Len(d) # SetPixelFormatLength
    THEN [pf |-> ZeroPixelFormat, err |-> TRUE]
    ELSE [pf |-> [BitsPerPixel |-> At(d, 4), Depth |-> At(d, 5),
                  BigEndianFlag |-> At(d, 6), TrueColorFlag |-> At(d, 7),
                  RedMax |-> BitOr(Shl(At(d, 8), 8), At(d, 9)),
                  GreenMax |-> BitOr(Shl(At(d, 10), 8), At(d, 11)),
                  BlueMax |-> BitOr(Shl(At(d, 12), 8), At(d, 13)),
                  RedShift |-> At(d, 14), GreenShift |-> At(d, 15),
                  BlueShift |-> At(d, 16),
                  Padding |-> <<0, 0, 0>>],
          err |-> FALSE]

\* ParseSetPixelFormat(data): the PixelFormat and whether the error is
\* non-nil
ParseSetPixelFormat(d) ==
    IF Len(d) # SetPixelFormatLength
    THEN [pf |-> ZeroPixelFormat, err |-> TRUE]
    ELSE [pf |-> [BitsPerPixel |-> At(d, 4), Depth |-> At(d, 5),
                  BigEndianFlag |-> At(d, 6), TrueColorFlag |-> At(d, 7),
                  RedMax |-> BitOr(Shl(At(d, 8), 8), At(d, 9)),
                  GreenMax |-> BitOr(Shl(At(d, 10), 8), At(d, 11)),
                  BlueMax |-> BitOr(Shl(At(d, 12), 8), At(d, 13)),
                  RedShift |-> At(d, 14), GreenShift |-> At(d, 15),
                  BlueShift |-> At(d, 16),
                  Padding |-> <<At(d, 17), At(d, 18), At(d, 19)>>],
          err |-> FALSE]

\* CreateSetPixelFormat(pf)
CreateSetPixelFormat(f) ==
    <<SetPixelFormat, 0, 0, 0,
      f.BitsPerPixel, f.Depth, f.BigEndianFlag, f.TrueColorFlag,
      Uint8(Shr(f.RedMax, 8)), BitAnd(f.RedMax, 255),
      Uint8(Shr(f.GreenMax, 8)), BitAnd(f.GreenMax, 255),
      Uint8(Shr(f.BlueMax, 8)), BitAnd(f.BlueMax, 255),
      f.RedShift, f.GreenShift, f.BlueShift,
      f.Padding[1], f.Padding[2], f.Padding[3]>>

\* IsDefaultPixelFormat(pf): the ten fields compared, Padding not
IsDefaultPixelFormat(f) ==
    /\ f.BitsPerPixel = DefaultPixelFormat.BitsPerPixel
    /\ f.Depth = DefaultPixelFormat.Depth
    /\ f.BigEndianFlag = DefaultPixelFormat.BigEndianFlag
    /\ f.TrueColorFlag = DefaultPixelFormat.TrueColorFlag
    /\ f.RedMax = DefaultPixelFormat.RedMax
    /\ f.GreenMax = DefaultPixelFormat.GreenMax
    /\ f.BlueMax = DefaultPixelFormat.BlueMax
    /\ f.RedShift = DefaultPixelFormat.RedShift
    /\ f.GreenShift = DefaultPixelFormat.GreenShift
    /\ f.BlueShift = DefaultPixelFormat.BlueShift

\* WritePixelValue on a buffer of n zero bytes
WritePixelValue(n, value, bigEndian) ==
    LET b0 == Uint8(value)
        b1 == Uint8(Shr(value, 8))
        b2 == Uint8(Shr(value, 16))
        b3 == Uint8(Shr(value, 24))
    IN CASE n = 1 -> <<b0>>
         [] n = 2 -> IF bigEndian = 1 THEN <<b1, b0>> ELSE <<b0, b1>>
         [] n = 3 -> IF bigEndian = 1 THEN <<b2, b1, b0>> ELSE <<b0, b1, b2>>
         [] n = 4 -> IF bigEndian = 1 THEN <<b3, b2, b1, b0>>
                     ELSE <<b0, b1, b2, b3>>
         [] OTHER -> [i \in 1 .. n |-> 0]

\* ReadPixelValue(buffer, bigEndian)
ReadPixelValue(buf, bigEndian) ==
    LET Be(q) == IF bigEndian = 1 THEN q
                 ELSE [i \in 1 .. Len(q) |-> q[Len(q) + 1 - i]]
        q == Be(buf)
    IN CASE Len(buf) = 1 -> q[1]
         [] Len(buf) = 2 -> BitOr(Shl(q[1], 8), q[2])
         [] Len(buf) = 3 -> BitOr(BitOr(Shl(q[1], 16), Shl(q[2], 8)), q[3])
         [] Len(buf) = 4 -> BitOr(BitOr(Shl(q[1], 24), Shl(q[2], 16)),
                                  BitOr(Shl(q[3], 8), q[4]))
         [] OTHER -> 0

\* the bytes ConvertPixelFormat writes for pixel i
ConvertedPixel(bgraData, i, tf) ==
    LET b == At(bgraData, i * 4)
        g == At(bgraData, i * 4 + 1)
        r == At(bgraData, i * 4 + 2)
        scaledR == Uint16(r * tf.RedMax) \div 255
        scaledG == Uint16(g * tf.GreenMax) \div 255
        scaledB == Uint16(b * tf.BlueMax) \div 255
        pixelValue == BitOr(BitOr(Shl(scaledR, tf.RedShift),
                                  Shl(scaledG, tf.GreenShift)),
                            Shl(scaledB, tf.BlueShift))
    IN WritePixelValue(tf.BitsPerPixel \div 8, pixelValue, tf.BigEndianFlag)

RECURSIVE ConvertedPixels(_, _, _)
\* the bytes ConvertPixelFormat writes for the pixels 0 .. n-1
ConvertedPixels(bgraData, n, tf) ==
    IF n = 0 THEN <<>>
    ELSE ConvertedPixels(bgraData, n - 1, tf)
         \o ConvertedPixel(bgraData, n - 1, tf)

\* ConvertPixelFormat(bgraData, width, height, targetFormat)
ConvertPixelFormat(bgraData, width, height, tf) ==
    IF IsDefaultPixelFormat(tf) THEN bgraData
    ELSE ConvertedPixels(bgraData, width * height, tf)

\* ConvertPixelToRGBA with the component bits taken as the 8-bit values
ConvertPixelToRGBA_Unscaled(pixelBytes, f) ==
    LET pixelValue == ReadPixelValue(pixelBytes, f.BigEndianFlag)
    IN [R |-> Uint8(BitAnd(Shr(pixelValue, f.RedShift), f.RedMax)),
        G |-> Uint8(BitAnd(Shr(pixelValue, f.GreenShift), f.GreenMax)),
        B |-> Uint8(BitAnd(Shr(pixelValue, f.BlueShift), f.BlueMax)),
        A |-> 255]

\* ConvertPixelToRGBA(pixelBytes, pf)
ConvertPixelToRGBA(pixelBytes, f) ==
    LET pixelValue == ReadPixelValue(pixelBytes, f.BigEndianFlag)
        redBits == BitAnd(Shr(pixelValue, f.RedShift), f.RedMax)
        greenBits == BitAnd(Shr(pixelValue, f.GreenShift), f.GreenMax)
        blueBits == BitAnd(Shr(pixelValue, f.BlueShift), f.BlueMax)
        Scale(bits, max) ==
            IF max > 0 THEN Uint8((bits * 255) \div max) ELSE 0
    IN [R |-> Scale(redBits, f.RedMax),
        G |-> Scale(greenBits, f.GreenMax),
        B |-> Scale(blueBits, f.BlueMax),
        A |-> 255]

\* no call of package rfb made
NoCall == [fn |-> "none"]

\* no connection to the mock VNC server
NoVncClient ==
    /\ stream = <<>>
    /\ vncBuffer = <<>>
    /\ handled = <<>>
    /\ vncPc = "idle"

NoRfbInput ==
    /\ messageType = 0
    /\ data = <<>>
    /\ pf = DefaultPixelFormat
    /\ NoVncClient

\* data of n bytes for GetMessageLength: bytes 2-3 and 4-7 chosen, the
\* others 0
LengthData ==
    {[i \in 1 .. n |-> CASE i = 3 -> c2 [] i = 4 -> c3 [] i = 5 -> t
                          [] i \in {6, 7} -> m [] i = 8 -> l [] OTHER -> 0] :
        n \in DataLens, c2 \in CountBytes, c3 \in CountBytes, t \in TopBytes,
        m \in LowBytes, l \in LowBytes}

PixelFormats ==
    {DefaultPixelFormat, RGB565PixelFormat} \cup
    [BitsPerPixel : {8, 32}, Depth : {24}, BigEndianFlag : {0, 1},
     TrueColorFlag : {1}, RedMax : MaxValues, GreenMax : {63, 4660},
     BlueMax : {31}, RedShift : {16}, GreenShift : {8, 255},
     BlueShift : {0}, Padding : Paddings]

\* data of n bytes for ParseSetPixelFormat: byte i holds i
RawMessages == {[i \in 1 .. n |-> i - 1] : n \in RawLens}

\* one BGRA pixel: one channel runs through all its values
Pixels ==
    {[i \in 1 .. 4 |-> IF i = 4 THEN a ELSE IF i = c THEN v
                       ELSE IF (i - c) % 3 = 1 THEN s1 ELSE s2] :
        c \in 1 .. 3, v \in Byte, s1 \in ChannelSamples,
        s2 \in ChannelSamples, a \in {0, 255}}

\* length, err := rfb.GetMessageLength(messageType, data)
CallGetMessageLength ==
    /\ ret = NoCall
    /\ ret' = [fn |-> "GetMessageLength",
               res |-> GetMessageLength(messageType, data)]
    /\ UNCHANGED <<relayVars, other, serveVars, messageType, data, pf,
                   mockVars>>

\* msg := rfb.CreateSetPixelFormat(pf)
CallCreateSetPixelFormat ==
    /\ ret = NoCall
    /\ ret' = [fn |-> "CreateSetPixelFormat", msg |-> CreateSetPixelFormat(pf)]
    /\ UNCHANGED <<relayVars, other, serveVars, messageType, data, pf,
                   mockVars>>

\* pf, err := rfb.ParseSetPixelFormat(...) of data, or of the message
\* CreateSetPixelFormat has returned
CallParseSetPixelFormat ==
    /\ ret.fn \in {"none", "CreateSetPixelFormat"}
    /\ LET d == IF ret = NoCall THEN data ELSE ret.msg
       IN ret' = [fn |-> "ParseSetPixelFormat", in |-> d,
                  res |-> ParseSetPixelFormat(d)]
    /\ UNCHANGED <<relayVars, other, serveVars, messageType, data, pf,
                   mockVars>>

\* pixelData := rfb.ConvertPixelFormat(data, 1, 1, pf) of one pixel
CallConvertPixelFormat ==
    /\ ret = NoCall
    /\ Len(data) = 4
    /\ ret' = [fn |-> "ConvertPixelFormat",
               out |-> ConvertPixelFormat(data, 1, 1, pf)]
    /\ UNCHANGED <<relayVars, other, serveVars, messageType, data, pf,
                   mockVars>>

\* rgba := rfb.ConvertPixelToRGBA(...) of the bytes ConvertPixelFormat has
\* returned
CallConvertPixelToRGBA ==
    /\ ret.fn = "ConvertPixelFormat"
    /\ ret' = [fn |-> "ConvertPixelToRGBA",
               rgba |-> ConvertPixelToRGBA(ret.out, pf)]
    /\ UNCHANGED <<relayVars, other, serveVars, messageType, data, pf,
                   mockVars>>

\* --------------------------------------------------------------- Serve

\* Serve has not been called
ServeIdle ==
    /\ sPc = "none"
    /\ srv = "none"
    /\ lis = "none"
    /\ sCtx = FALSE
    /\ gPc = "none"
    /\ routes = {}
    /\ logs = <<>>
    /\ sErr = "none"
    /\ exit = "none"

\* a request has arrived; nothing of it has been handled
InitRelay ==
    /\ handshakeOK \in BOOLEAN
    /\ hpc = "start"
    /\ dials = 0
    /\ wsState = "none"
    /\ tcpState = "none"
    /\ wsCloses = 0
    /\ tcpCloses = 0
    /\ parentCancelled = FALSE
    /\ cancelCalled = FALSE
    /\ supPc = "idle"
    /\ done = 0
    /\ fTpc = "idle"
    /\ fTwhy = "none"
    /\ fWpc = "idle"
    /\ fWwhy = "none"
    /\ wsReadErr = FALSE
    /\ fWerr = "none"
    /\ tcpPeer = "open"
    /\ tcpSends = 0
    /\ tcpSent = 0
    /\ tcpReads = <<>>
    /\ tcpBuffer = NoChunk
    /\ wsOut = <<>>
    /\ wsPeer = "open"
    /\ wsSends = 0
    /\ wsSent = 0
    /\ wsIn = <<>>
    /\ wsReads = <<>>
    /\ buffer = NoChunk
    /\ tcpOut = <<>>
    /\ other = "none"
    /\ ServeIdle
    /\ ret = NoCall

Init ==
    /\ origin \in Origins
    /\ webRoot = NoPath
    /\ NoRfbInput
    /\ InitRelay

\* ------------------------------------------------------------- ServeHTTP

\* a request reaches ServeHTTP through the mux of a listening Serve, or
\* through the server the caller has mounted the handler on
Reachable == sPc = "none" \/ srv = "listening"

\* CheckOrigin admitting the host's own origin only
CheckOrigin_SameHost(o) == o = SameHostOrigin

\* upgrader.CheckOrigin: r.Header.Get("Origin") != ""
CheckOrigin(o) == o # ""

\* Upgrade with the return after a failed upgrade missing
Upgrade_NoReturn ==
    /\ hpc = "start"
    /\ Reachable
    /\ wsState' = IF handshakeOK /\ CheckOrigin(origin) THEN "open" ELSE wsState
    /\ hpc' = "dial"
    /\ UNCHANGED <<serverVars,
                   origin, handshakeOK, dials, tcpState, wsCloses, tcpCloses,
                   ctxVars, supVars, done, fTVars, fWVars, tcpInVars, t2wVars,
                   wsInVars, w2tVars>>

\* the request has reached the handler; ws, err := upgrader.Upgrade(w, r,
\* nil); if err != nil { return }
Upgrade ==
    /\ hpc = "start"
    /\ Reachable
    /\ IF handshakeOK /\ CheckOrigin(origin)
       THEN /\ wsState' = "open"
            /\ hpc' = "dial"
       ELSE /\ wsState' = wsState
            /\ hpc' = "returned"
    /\ UNCHANGED <<serverVars,
                   origin, handshakeOK, dials, tcpState, wsCloses, tcpCloses,
                   ctxVars, supVars, done, fTVars, fWVars, tcpInVars, t2wVars,
                   wsInVars, w2tVars>>

\* Dial with a failed dial only logged: the handler goes on to the relay
Dial_FallThrough ==
    /\ hpc = "dial"
    /\ dials' = dials + 1
    /\ \E ok \in BOOLEAN :
         tcpState' = IF ok THEN "open" ELSE tcpState
    /\ hpc' = "supervise"
    /\ supPc' = "start"
    /\ UNCHANGED <<serverVars,
                   origin, handshakeOK, wsState, wsCloses, tcpCloses, ctxVars,
                   done, fTVars, fWVars, tcpInVars, t2wVars, wsInVars,
                   w2tVars>>

\* vnc, err := net.Dial("tcp", s.target); on success ServeHTTP calls
\* handleConnection
Dial ==
    /\ hpc = "dial"
    /\ dials' = dials + 1
    /\ \E ok \in BOOLEAN :
         IF ok
         THEN /\ tcpState' = "open"
              /\ hpc' = "supervise"
              /\ supPc' = "start"
         ELSE /\ tcpState' = tcpState
              /\ hpc' = "dialfail"
              /\ supPc' = supPc
    /\ UNCHANGED <<serverVars,
                   origin, handshakeOK, wsState, wsCloses, tcpCloses, ctxVars,
                   done, fTVars, fWVars, tcpInVars, t2wVars, wsInVars,
                   w2tVars>>

\* if ws != nil { ws.Close() }; return
DialFailClose ==
    /\ hpc = "dialfail"
    /\ IF wsState # "none"
       THEN /\ wsState' = "closed"
            /\ wsCloses' = wsCloses + 1
       ELSE UNCHANGED <<wsState, wsCloses>>
    /\ hpc' = "returned"
    /\ UNCHANGED <<serverVars,
                   origin, handshakeOK, dials, tcpState, tcpCloses, ctxVars,
                   supVars, done, fTVars, fWVars, tcpInVars, t2wVars,
                   wsInVars, w2tVars>>

\* HandlerReturn with the relay started as a goroutine of its own
\* (go s.handleConnection(...)): ServeHTTP returns without waiting for it
HandlerReturn_Async ==
    /\ hpc = "supervise"
    /\ hpc' = "returned"
    /\ UNCHANGED <<serverVars,
                   origin, handshakeOK, dials, connVars, ctxVars, supVars,
                   done, fTVars, fWVars, tcpInVars, t2wVars, wsInVars,
                   w2tVars>>

\* s.handleConnection(ctx, ws, vnc) has returned; ServeHTTP returns
HandlerReturn ==
    /\ hpc = "supervise"
    /\ supPc = "returned"
    /\ hpc' = "returned"
    /\ UNCHANGED <<serverVars,
                   origin, handshakeOK, dials, connVars, ctxVars, supVars,
                   done, fTVars, fWVars, tcpInVars, t2wVars, wsInVars,
                   w2tVars>>

\* ------------------------------------------------------ handleConnection

\* CtxDone with connCtx derived from context.Background() instead of ctx
CtxDone_NoParent == cancelCalled

\* connCtx.Done() is closed: connCtx is a child of the request context
CtxDone == parentCancelled \/ cancelCalled

\* connCtx, cancel := context.WithCancel(ctx); the two defers;
\* done := make(chan struct{}, 2); go s.forwardTCP(...)
HCSpawnTCP ==
    /\ supPc = "start"
    /\ supPc' = "spawnWeb"
    /\ fTpc' = "top"
    /\ UNCHANGED <<serverVars, handlerVars, connVars, ctxVars, done, fTwhy,
                   fWVars, tcpInVars, t2wVars, wsInVars, w2tVars>>

\* go s.forwardWeb(...)
HCSpawnWeb ==
    /\ supPc = "spawnWeb"
    /\ supPc' = "select"
    /\ fWpc' = "top"
    /\ UNCHANGED <<serverVars,
                   wsReadErr, fWerr, handlerVars, connVars, ctxVars, done, fTVars, fWwhy,
                   tcpInVars, t2wVars, wsInVars, w2tVars>>

\* HCSelect with a default case: the supervisor does not wait
HCSelect_NoWait ==
    /\ supPc = "select"
    /\ \/ done' = done
       \/ /\ done > 0
          /\ done' = done - 1
    /\ supPc' = "closeTCP"
    /\ UNCHANGED <<serverVars,
                   handlerVars, connVars, ctxVars, fTVars, fWVars, tcpInVars,
                   t2wVars, wsInVars, w2tVars>>

\* HCSelect going on only once both forwarders have returned
HCSelect_Join ==
    /\ supPc = "select"
    /\ fTpc = "returned"
    /\ fWpc = "returned"
    /\ \/ /\ CtxDone
          /\ done' = done
       \/ /\ done > 0
          /\ done' = done - 1
    /\ supPc' = "closeTCP"
    /\ UNCHANGED <<serverVars,
                   handlerVars, connVars, ctxVars, fTVars, fWVars, tcpInVars,
                   t2wVars, wsInVars, w2tVars>>

\* HCSelect waking also when a peer has ended, before any forwarder has
\* seen it
HCSelect_OnPeerEnd ==
    /\ supPc = "select"
    /\ \/ /\ CtxDone
          /\ done' = done
       \/ /\ done > 0
          /\ done' = done - 1
       \/ /\ (tcpPeer # "open" \/ wsPeer # "open")
          /\ done' = done
    /\ supPc' = "closeTCP"
    /\ UNCHANGED <<serverVars,
                   handlerVars, connVars, ctxVars, fTVars, fWVars, tcpInVars,
                   t2wVars, wsInVars, w2tVars>>

\* select { case <-connCtx.Done(): ... case <-done: }
HCSelect ==
    /\ supPc = "select"
    /\ \/ /\ CtxDone
          /\ done' = done
       \/ /\ done > 0
          /\ done' = done - 1
    /\ supPc' = "closeTCP"
    /\ UNCHANGED <<serverVars,
                   handlerVars, connVars, ctxVars, fTVars, fWVars, tcpInVars,
                   t2wVars, wsInVars, w2tVars>>

\* deferred: if tcpConn != nil { tcpConn.Close() }
HCCloseTCP ==
    /\ supPc = "closeTCP"
    /\ IF tcpState # "none"
       THEN /\ tcpState' = "closed"
            /\ tcpCloses' = tcpCloses + 1
       ELSE UNCHANGED <<tcpState, tcpCloses>>
    /\ supPc' = "closeWS"
    /\ UNCHANGED <<serverVars, handlerVars, wsState, wsCloses, ctxVars, done,
                   fTVars, fWVars, tcpInVars, t2wVars, wsInVars, w2tVars>>

\* HCCloseWS with the Close call left out
HCCloseWS_Skip ==
    /\ supPc = "closeWS"
    /\ supPc' = "cancel"
    /\ UNCHANGED <<serverVars,
                   handlerVars, connVars, ctxVars, done, fTVars, fWVars,
                   tcpInVars, t2wVars, wsInVars, w2tVars>>

\* deferred: if wsConn != nil { wsConn.Close() }
HCCloseWS ==
    /\ supPc = "closeWS"
    /\ IF wsState # "none"
       THEN /\ wsState' = "closed"
            /\ wsCloses' = wsCloses + 1
       ELSE UNCHANGED <<wsState, wsCloses>>
    /\ supPc' = "cancel"
    /\ UNCHANGED <<serverVars,
                   handlerVars, tcpState, tcpCloses, ctxVars, done,
                   fTVars, fWVars, tcpInVars, t2wVars, wsInVars, w2tVars>>

\* HCCancel with a cancel() of a context the relays of the Server share
HCCancel_Shared ==
    /\ supPc = "cancel"
    /\ cancelCalled' = TRUE
    /\ supPc' = "returned"
    /\ other' = IF other = "up" THEN "stopping" ELSE other
    /\ UNCHANGED <<serveVars, rfbVars, mockVars, handlerVars, connVars, parentCancelled, done, fTVars,
                   fWVars, tcpInVars, t2wVars, wsInVars, w2tVars>>

\* deferred: cancel(); handleConnection returns
HCCancel ==
    /\ supPc = "cancel"
    /\ cancelCalled' = TRUE
    /\ supPc' = "returned"
    /\ UNCHANGED <<serverVars,
                   handlerVars, connVars, parentCancelled, done, fTVars,
                   fWVars, tcpInVars, t2wVars, wsInVars, w2tVars>>

\* ------------------------------------------------------------ forwardTCP

\* number of bytes tcpConn.Read has returned so far
TcpReadPos ==
    IF tcpReads = <<>> THEN 0
    ELSE tcpReads[Len(tcpReads)].off + tcpReads[Len(tcpReads)].n

\* FTTop without the ctx check
FTTop_NoCheck ==
    /\ fTpc = "top"
    /\ fTpc' = "read"
    /\ UNCHANGED <<serverVars,
                   handlerVars, connVars, ctxVars, supVars, done, fTwhy,
                   fWVars, tcpInVars, t2wVars, wsInVars, w2tVars>>

\* FTTop with the cancelled forwarder returning at once, no signal on done
FTTop_QuietCancel ==
    /\ fTpc = "top"
    /\ IF CtxDone
       THEN /\ fTpc' = "returned"
            /\ fTwhy' = fTwhy
       ELSE /\ fTpc' = "read"
            /\ fTwhy' = fTwhy
    /\ UNCHANGED <<serverVars, handlerVars, connVars, ctxVars, supVars, done,
                   fWVars, tcpInVars, t2wVars, wsInVars, w2tVars>>

\* top of the loop: select { case <-ctx.Done(): return; default: }
FTTop ==
    /\ fTpc = "top"
    /\ IF CtxDone
       THEN /\ fTpc' = "exit"
            /\ fTwhy' = "cancel_top"
       ELSE /\ fTpc' = "read"
            /\ fTwhy' = fTwhy
    /\ UNCHANGED <<serverVars, handlerVars, connVars, ctxVars, supVars, done,
                   fWVars, tcpInVars, t2wVars, wsInVars, w2tVars>>

\* tcpConn.SetReadDeadline(now + 100ms); tcpConn.Read(tcpBuffer[0:]) starts
FTReadStart ==
    /\ fTpc = "read"
    /\ fTpc' = "reading"
    /\ UNCHANGED <<serverVars,
                   handlerVars, connVars, ctxVars, supVars, done, fTwhy,
                   fWVars, tcpInVars, t2wVars, wsInVars, w2tVars>>

\* FTReadReturn with the target's EOF or reset only noted: forwardTCP goes on
\* to WriteMessage with what the buffer holds
FTReadReturn_IgnoreErr ==
    /\ fTpc = "reading"
    /\ \/ /\ tcpState # "open"
          /\ fTpc' = "exit"
          /\ fTwhy' = "read_err"
          /\ UNCHANGED <<tcpReads, tcpBuffer>>
       \/ /\ tcpState = "open"
          /\ tcpSent > TcpReadPos
          /\ LET n == Min(tcpSent - TcpReadPos, TcpBufferSize)
                 c == [off |-> TcpReadPos, n |-> n]
             IN  /\ tcpReads' = Append(tcpReads, c)
                 /\ tcpBuffer' = c
          /\ fTpc' = "write"
          /\ fTwhy' = fTwhy
       \/ /\ tcpState = "open"
          /\ tcpPeer # "open"
          /\ fTpc' = "write"
          /\ fTwhy' = "read_err"
          /\ UNCHANGED <<tcpReads, tcpBuffer>>
       \/ /\ tcpState = "open"
          /\ tcpSent = TcpReadPos
          /\ tcpPeer = "open"
          /\ IF CtxDone
             THEN /\ fTpc' = "exit"
                  /\ fTwhy' = "cancel_timeout"
             ELSE /\ fTpc' = "top"
                  /\ fTwhy' = fTwhy
          /\ UNCHANGED <<tcpReads, tcpBuffer>>
    /\ UNCHANGED <<serverVars, handlerVars, connVars, ctxVars, supVars, done,
                   fWVars, tcpInVars, wsOut, wsInVars, w2tVars>>

\* n, err := tcpConn.Read(tcpBuffer[0:]) returns: the error of a closed conn,
\* at most len(tcpBuffer) of the pending bytes, the target's EOF or reset,
\* or the deadline's timeout (then the ctx check and continue)
FTReadReturn ==
    /\ fTpc = "reading"
    /\ \/ /\ tcpState # "open"
          /\ fTpc' = "exit"
          /\ fTwhy' = "read_err"
          /\ UNCHANGED <<tcpReads, tcpBuffer>>
       \/ /\ tcpState = "open"
          /\ tcpSent > TcpReadPos
          /\ LET n == Min(tcpSent - TcpReadPos, TcpBufferSize)
                 c == [off |-> TcpReadPos, n |-> n]
             IN  /\ tcpReads' = Append(tcpReads, c)
                 /\ tcpBuffer' = c
          /\ fTpc' = "write"
          /\ fTwhy' = fTwhy
       \/ /\ tcpState = "open"
          /\ tcpPeer # "open"
          /\ fTpc' = "exit"
          /\ fTwhy' = "read_err"
          /\ UNCHANGED <<tcpReads, tcpBuffer>>
       \/ /\ tcpState = "open"
          /\ tcpSent = TcpReadPos
          /\ tcpPeer = "open"
          /\ IF CtxDone
             THEN /\ fTpc' = "exit"
                  /\ fTwhy' = "cancel_timeout"
             ELSE /\ fTpc' = "top"
                  /\ fTwhy' = fTwhy
          /\ UNCHANGED <<tcpReads, tcpBuffer>>
    /\ UNCHANGED <<serverVars, handlerVars, connVars, ctxVars, supVars, done,
                   fWVars, tcpInVars, wsOut, wsInVars, w2tVars>>

\* FTMessage with the whole buffer, tcpBuffer[0:], as the payload
FTMessage_WholeBuffer ==
    [type |-> "binary", off |-> tcpBuffer.off, n |-> TcpBufferSize]

\* FTMessage with one buffer shared by the two forwarders: the payload is
\* what forwardWeb's read has left there
FTMessage_SharedBuffer == [type |-> "binary", off |-> buffer.off, n |-> buffer.n]

\* the message wsConn.WriteMessage(websocket.BinaryMessage, tcpBuffer[0:n])
\* sends
FTMessage == [type |-> "binary", off |-> tcpBuffer.off, n |-> tcpBuffer.n]

\* wsConn.WriteMessage(...) on a conn the supervisor has closed: it fails
FTWriteClosed ==
    /\ fTpc = "write"
    /\ wsState # "open"
    /\ fTpc' = "exit"
    /\ fTwhy' = "write_err"
    /\ UNCHANGED <<serverVars, handlerVars, connVars, ctxVars, supVars, done,
                   fWVars, tcpInVars, t2wVars, wsInVars, w2tVars>>

\* FTWrite with a failed write only logged: the loop goes on
FTWrite_GoOn ==
    /\ fTpc = "write"
    /\ wsState = "open"
    /\ \/ wsOut' = Append(wsOut, FTMessage)
       \/ /\ wsPeer # "open"
          /\ wsOut' = wsOut
    /\ fTpc' = "top"
    /\ fTwhy' = fTwhy
    /\ UNCHANGED <<serverVars, handlerVars, connVars, ctxVars, supVars, done,
                   fWVars, tcpInVars, tcpReads, tcpBuffer, wsInVars, w2tVars>>

\* wsConn.WriteMessage(...) on an open conn: the message is sent (it may
\* stay blocked for as long as the client does not drain), or it fails when
\* the client is gone
FTWrite ==
    /\ fTpc = "write"
    /\ wsState = "open"
    /\ \/ /\ wsOut' = Append(wsOut, FTMessage)
          /\ fTpc' = "top"
          /\ fTwhy' = fTwhy
       \/ /\ wsPeer # "open"
          /\ wsOut' = wsOut
          /\ fTpc' = "exit"
          /\ fTwhy' = "write_err"
    /\ UNCHANGED <<serverVars, handlerVars, connVars, ctxVars, supVars, done,
                   fWVars, tcpInVars, tcpReads, tcpBuffer, wsInVars, w2tVars>>

\* FTExit with the forwarder closing both conns itself before it signals
FTExit_Closes ==
    /\ fTpc = "exit"
    /\ tcpState' = "closed"
    /\ tcpCloses' = tcpCloses + 1
    /\ wsState' = "closed"
    /\ wsCloses' = wsCloses + 1
    /\ done' = IF done < DoneCap THEN done + 1 ELSE done
    /\ fTpc' = "returned"
    /\ fTwhy' = "none"
    /\ UNCHANGED <<serverVars,
                   handlerVars, ctxVars, supVars, fWVars, tcpInVars, t2wVars,
                   wsInVars, w2tVars>>

\* FTExit sending on a done channel that holds one signal less
FTExit_SmallerChan ==
    /\ fTpc = "exit"
    /\ done' = IF done < DoneCap - 1 THEN done + 1 ELSE done
    /\ fTpc' = "returned"
    /\ fTwhy' = "none"
    /\ UNCHANGED <<serverVars, handlerVars, connVars, ctxVars, supVars,
                   fWVars, tcpInVars, t2wVars, wsInVars, w2tVars>>

\* deferred: select { case done <- struct{}{}: default: }; forwardTCP returns
FTExit ==
    /\ fTpc = "exit"
    /\ done' = IF done < DoneCap THEN done + 1 ELSE done
    /\ fTpc' = "returned"
    /\ fTwhy' = "none"
    /\ UNCHANGED <<serverVars, handlerVars, connVars, ctxVars, supVars,
                   fWVars, tcpInVars, t2wVars, wsInVars, w2tVars>>

\* ------------------------------------------------------------ forwardWeb

\* top of the loop: select { case <-ctx.Done(): return; default: }
FWTop ==
    /\ fWpc = "top"
    /\ IF CtxDone
       THEN /\ fWpc' = "exit"
            /\ fWwhy' = "cancel_top"
       ELSE /\ fWpc' = "read"
            /\ fWwhy' = fWwhy
    /\ UNCHANGED <<serverVars,
                   wsReadErr, fWerr, handlerVars, connVars, ctxVars, supVars, done,
                   fTVars, tcpInVars, t2wVars, wsInVars, w2tVars>>

\* wsConn.SetReadDeadline(now + 100ms); wsConn.ReadMessage() starts
FWReadStart ==
    /\ fWpc = "read"
    /\ fWpc' = "reading"
    /\ UNCHANGED <<serverVars,
                   wsReadErr, fWerr, handlerVars, connVars, ctxVars, supVars, done, fWwhy,
                   fTVars, tcpInVars, t2wVars, wsInVars, w2tVars>>

\* websocket.IsCloseError(err, CloseGoingAway, CloseAbnormalClosure)
IsCloseError(end) == end \in {"goingaway", "abnormal"}

\* FWReadReturn with every read error ignored: the loop reads again
FWReadReturn_Retry ==
    /\ fWpc = "reading"
    /\ IF ~wsReadErr /\ wsIn # <<>>
       THEN /\ buffer' = [off |-> Head(wsIn).off, n |-> Head(wsIn).n]
            /\ wsReads' = Append(wsReads, Head(wsIn))
            /\ wsIn' = Tail(wsIn)
            /\ fWpc' = "write"
       ELSE /\ fWpc' = "read"
            /\ UNCHANGED <<wsReads, buffer, wsIn>>
    /\ UNCHANGED <<serverVars,
                   handlerVars, connVars, ctxVars, supVars, done, fWwhy,
                   wsReadErr, fWerr, fTVars, tcpInVars, t2wVars, wsPeer, wsSends,
                   wsSent, tcpOut>>

\* _, buffer, err := wsConn.ReadMessage() returns: the next received message
\* (its type is dropped), the error of a closed conn, the close error or
\* fault the client ended with, or the deadline's timeout (then the ctx check
\* and continue). The websocket package keeps the error of a failed read: a
\* conn whose read has timed out returns that timeout again from every later
\* ReadMessage, without reading, and panics when the reads are repeated.
FWReadReturn ==
    /\ fWpc = "reading"
    /\ \/ /\ ~wsReadErr
          /\ wsIn # <<>>
          /\ buffer' = [off |-> Head(wsIn).off, n |-> Head(wsIn).n]
          /\ wsReads' = Append(wsReads, Head(wsIn))
          /\ wsIn' = Tail(wsIn)
          /\ fWpc' = "write"
          /\ fWwhy' = fWwhy
          /\ wsReadErr' = wsReadErr
          /\ fWerr' = fWerr
       \/ /\ ~wsReadErr
          /\ wsState # "open"
          /\ fWpc' = "exit"
          /\ fWwhy' = "read_err"
          /\ UNCHANGED <<wsReads, buffer, wsIn, wsReadErr, fWerr>>
       \/ /\ ~wsReadErr
          /\ wsState = "open"
          /\ wsIn = <<>>
          /\ wsPeer # "open"
          /\ fWpc' = "exit"
          /\ \E e \in WsPeerEnds :
                /\ fWerr' = e
                /\ fWwhy' = IF IsCloseError(e) THEN "ws_close"
                                                   ELSE "read_err"
          /\ UNCHANGED <<wsReads, buffer, wsIn, wsReadErr>>
       \/ /\ ~wsReadErr
          /\ wsState = "open"
          /\ wsIn = <<>>
          /\ wsPeer = "open"
          /\ wsReadErr' \in StickyReadErr
          /\ IF CtxDone
             THEN /\ fWpc' = "exit"
                  /\ fWwhy' = "cancel_timeout"
             ELSE /\ fWpc' = "top"
                  /\ fWwhy' = fWwhy
          /\ UNCHANGED <<wsReads, buffer, wsIn, fWerr>>
       \/ /\ wsReadErr
          /\ IF CtxDone
             THEN /\ fWpc' = "exit"
                  /\ fWwhy' = "cancel_timeout"
             ELSE /\ fWpc' = "top"
                  /\ fWwhy' = fWwhy
          /\ UNCHANGED <<wsReads, buffer, wsIn, wsReadErr, fWerr>>
       \/ /\ wsReadErr
          /\ fWpc' = "exit"
          /\ fWwhy' = "panic"
          /\ UNCHANGED <<wsReads, buffer, wsIn, wsReadErr, fWerr>>
    /\ UNCHANGED <<serverVars, handlerVars, connVars, ctxVars, supVars, done,
                   fTVars, tcpInVars, t2wVars, wsPeer, wsSends, wsSent,
                   tcpOut>>

\* tcpConn.Write(buffer) on a conn the supervisor has closed: it fails
FWWriteClosed ==
    /\ fWpc = "write"
    /\ tcpState # "open"
    /\ fWpc' = "exit"
    /\ fWwhy' = "write_err"
    /\ UNCHANGED <<serverVars,
                   wsReadErr, fWerr, handlerVars, connVars, ctxVars, supVars, done,
                   fTVars, tcpInVars, t2wVars, wsInVars, w2tVars>>

\* what a tcpConn.Write(buffer) that failed after k bytes leaves written
ShortWrite(k) ==
    IF 0 < k /\ k < buffer.n
    THEN Append(tcpOut, [off |-> buffer.off, n |-> k])
    ELSE tcpOut

\* FWWrite with a failed write only logged: the loop goes on
FWWrite_GoOn ==
    /\ fWpc = "write"
    /\ tcpState = "open"
    /\ \/ /\ tcpOut' = Append(tcpOut, buffer)
       \/ /\ tcpPeer # "open"
          /\ \E k \in ShortWrites : tcpOut' = ShortWrite(k)
    /\ fWpc' = "top"
    /\ fWwhy' = fWwhy
    /\ UNCHANGED <<serverVars,
                   wsReadErr, fWerr, handlerVars, connVars, ctxVars, supVars, done,
                   fTVars, tcpInVars, t2wVars, wsInVars, wsReads,
                   buffer>>

\* FWWrite with forwardWeb also sending the payload back on the WebSocket
FWWrite_Echo ==
    /\ fWpc = "write"
    /\ tcpState = "open"
    /\ \/ /\ tcpOut' = Append(tcpOut, buffer)
          /\ wsOut' = Append(wsOut, [type |-> "binary", off |-> buffer.off,
                                      n |-> buffer.n])
          /\ fWpc' = "top"
          /\ fWwhy' = fWwhy
       \/ /\ tcpPeer # "open"
          /\ \E k \in ShortWrites : tcpOut' = ShortWrite(k)
          /\ wsOut' = wsOut
          /\ fWpc' = "exit"
          /\ fWwhy' = "write_err"
    /\ UNCHANGED <<serverVars,
                   wsReadErr, fWerr, handlerVars, connVars, ctxVars, supVars,
                   done, fTVars, tcpInVars, tcpReads, tcpBuffer, wsInVars,
                   wsReads, buffer>>

\* tcpConn.Write(buffer) on an open conn: the whole payload is written (the
\* write may stay blocked for as long as the target does not drain), or the
\* write fails when the target is gone, with none or a part of the payload
\* put through; the count of bytes written is dropped, the error returns
FWWrite ==
    /\ fWpc = "write"
    /\ tcpState = "open"
    /\ \/ /\ tcpOut' = Append(tcpOut, buffer)
          /\ fWpc' = "top"
          /\ fWwhy' = fWwhy
       \/ /\ tcpPeer # "open"
          /\ \E k \in ShortWrites : tcpOut' = ShortWrite(k)
          /\ fWpc' = "exit"
          /\ fWwhy' = "write_err"
    /\ UNCHANGED <<serverVars,
                   wsReadErr, fWerr, handlerVars, connVars, ctxVars, supVars, done,
                   fTVars, tcpInVars, t2wVars, wsInVars, wsReads,
                   buffer>>

\* an unrecovered panic of a goroutine ends the program: ServeHTTP,
\* handleConnection and both forwarders stop where they are, and the
\* sockets go with the process
Crash ==
    /\ hpc' = "crashed"
    /\ supPc' = "crashed"
    /\ fTpc' = "crashed"
    /\ fWpc' = "crashed"
    /\ fTwhy' = "none"
    /\ fWwhy' = "none"
    /\ fWerr' = "none"
    /\ wsState' = "closed"
    /\ tcpState' = "closed"
    /\ UNCHANGED <<serverVars,
                   origin, handshakeOK, dials, wsCloses, tcpCloses, ctxVars,
                   done, wsReadErr, tcpInVars, t2wVars, wsInVars, w2tVars>>

\* FWExit with no recover() in the deferred function: a panic goes on
\* unwinding past forwardWeb
FWExit_NoRecover ==
    /\ fWpc = "exit"
    /\ IF fWwhy = "panic"
       THEN Crash
       ELSE /\ done' = IF done < DoneCap THEN done + 1 ELSE done
            /\ fWpc' = "returned"
            /\ fWwhy' = "none"
            /\ fWerr' = "none"
            /\ UNCHANGED <<serverVars,
                           wsReadErr, handlerVars, connVars, ctxVars,
                           supVars, fTVars, tcpInVars, t2wVars, wsInVars,
                           w2tVars>>

\* FWExit without the send on done
FWExit_NoSignal ==
    /\ fWpc = "exit"
    /\ fWpc' = "returned"
    /\ fWwhy' = "none"
    /\ fWerr' = "none"
    /\ UNCHANGED <<serverVars,
                   wsReadErr, handlerVars, connVars, ctxVars, supVars, done, fTVars,
                   tcpInVars, t2wVars, wsInVars, w2tVars>>

\* deferred: recover(); select { case done <- struct{}{}: default: };
\* forwardWeb returns
FWExit ==
    /\ fWpc = "exit"
    /\ done' = IF done < DoneCap THEN done + 1 ELSE done
    /\ fWpc' = "returned"
    /\ fWwhy' = "none"
    /\ fWerr' = "none"
    /\ UNCHANGED <<serverVars,
                   wsReadErr, handlerVars, connVars, ctxVars, supVars,
                   fTVars, tcpInVars, t2wVars, wsInVars, w2tVars>>

\* ---------------------------------------------------------- second relay
\* The relay of a second request, taken in three steps. It has its own conns
\* (ServeHTTP's ws and vnc), its own request context, connCtx and done
\* channel (handleConnection's locals); of the Server it only reads target
\* and logger.

\* ServeHTTP of the second request has upgraded and dialed, and its
\* handleConnection has started its two forwarders
OtherServe ==
    /\ other = "none"
    /\ other' = "up"
    /\ UNCHANGED <<relayVars, serveVars, rfbVars, mockVars>>

\* one of its forwarders has seen a read or a write fail, or its request
\* context is cancelled
OtherStop ==
    /\ other = "up"
    /\ other' = "stopping"
    /\ UNCHANGED <<relayVars, serveVars, rfbVars, mockVars>>

\* its handleConnection has woken, closed its two conns and returned, and
\* its forwarders have returned
OtherTeardown ==
    /\ other = "stopping"
    /\ other' = "down"
    /\ UNCHANGED <<relayVars, serveVars, rfbVars, mockVars>>

\* ------------------------------------------------------------------ Serve

\* the directory http.Dir(p) serves: p itself when absolute, else p below
\* the working directory; empty parts and "." parts name nothing
IsAbs(p) == p # NoPath /\ Head(p) = ""

Clean(p) == <<"">> \o SelectSeq(p, LAMBDA c : c \notin {"", "."})

ServedDir(p) == Clean(IF IsAbs(p) THEN p ELSE Cwd \o p)

\* Serve is called; path, err := os.Getwd(); if err != nil { return err };
\* mux := http.NewServeMux()
ServeGetwd ==
    /\ sPc = "none"
    /\ hpc = "start"
    /\ \E fails \in GetwdFails :
         IF fails
         THEN /\ sPc' = "returned"
              /\ sErr' = "getwd"
         ELSE /\ sPc' = "switch"
              /\ sErr' = sErr
    /\ UNCHANGED <<relayVars, other, rfbVars, mockVars, srv, lis, webRoot, sCtx, gPc, routes,
                   logs, exit>>

\* ServeRoutes without the first case of the switch
ServeRoutes_NoRefusal ==
    /\ sPc = "switch"
    /\ logs' = logs \o <<IF webRoot = NoPath THEN "no_web_root"
                         ELSE "serving_static", "serving_ws">>
    /\ routes' = routes \cup (IF webRoot = NoPath THEN {} ELSE {"/"})
                        \cup {"/websockify"}
    /\ srv' = "none"
    /\ sPc' = "spawn"
    /\ UNCHANGED <<relayVars, other, rfbVars, mockVars, lis, webRoot, sCtx, gPc, sErr, exit>>

\* switch { case s.webRoot == path: three lines logged, return nil;
\* case s.webRoot == "": logged; default: logged, mux.Handle("/",
\* http.FileServer(http.Dir(s.webRoot))) }; logged,
\* mux.HandleFunc("/websockify", ...); s.server = &http.Server{...}
ServeRoutes ==
    /\ sPc = "switch"
    /\ IF webRoot = Cwd
       THEN /\ logs' = logs \o <<"refusing", "please", "exiting">>
            /\ sPc' = "returned"
            /\ sErr' = "nil"
            /\ UNCHANGED <<routes, srv>>
       ELSE /\ logs' = logs \o <<IF webRoot = NoPath THEN "no_web_root"
                                 ELSE "serving_static", "serving_ws">>
            /\ routes' = routes \cup (IF webRoot = NoPath THEN {} ELSE {"/"})
                                \cup {"/websockify"}
            /\ srv' = "none"
            /\ sPc' = "spawn"
            /\ sErr' = sErr
    /\ UNCHANGED <<relayVars, other, rfbVars, mockVars, lis, webRoot, sCtx, gPc, exit>>

\* go func() { <-ctx.Done(); ... }()
ServeSpawn ==
    /\ sPc = "spawn"
    /\ gPc' = "waiting"
    /\ sPc' = "listen"
    /\ UNCHANGED <<relayVars, other, rfbVars, mockVars, srv, lis, webRoot, sCtx, routes, logs,
                   sErr, exit>>

\* s.server.ListenAndServe(), first part: ErrServerClosed at once when the
\* server is closed already; else net.Listen, whose error is returned
ServeListen ==
    /\ sPc = "listen"
    /\ IF srv = "closed"
       THEN /\ sPc' = "returned"
            /\ sErr' = "ErrServerClosed"
            /\ lis' = lis
       ELSE \E fails \in BindFails :
              IF fails
              THEN /\ sPc' = "returned"
                   /\ sErr' = "bind"
                   /\ lis' = lis
              ELSE /\ sPc' = "track"
                   /\ sErr' = sErr
                   /\ lis' = "open"
    /\ UNCHANGED <<relayVars, other, rfbVars, mockVars, srv, webRoot, sCtx, gPc, routes, logs,
                   exit>>

\* ListenAndServe, second part: the server takes the listener and accepts
\* on it, unless it has been closed meanwhile: then the listener is closed
\* and ErrServerClosed returned
ServeTrack ==
    /\ sPc = "track"
    /\ IF srv = "closed"
       THEN /\ lis' = "closed"
            /\ sPc' = "returned"
            /\ sErr' = "ErrServerClosed"
            /\ srv' = srv
       ELSE /\ srv' = "listening"
            /\ sPc' = "accept"
            /\ UNCHANGED <<lis, sErr>>
    /\ UNCHANGED <<relayVars, other, rfbVars, mockVars, webRoot, sCtx, gPc, routes, logs, exit>>

\* ListenAndServe, last part: Accept fails on the closed listener and the
\* server is closed: return ErrServerClosed
ServeReturn ==
    /\ sPc = "accept"
    /\ srv = "closed"
    /\ sPc' = "returned"
    /\ sErr' = "ErrServerClosed"
    /\ UNCHANGED <<relayVars, other, rfbVars, mockVars, srv, lis, webRoot, sCtx, gPc, routes,
                   logs, exit>>

\* the owner of the ctx given to Serve cancels it: cancel() in the signal
\* goroutine of cmd/websockify's main. A ctx cancelled before the call acts
\* as one cancelled right after it: Serve does not read ctx itself
CancelServe ==
    /\ sPc \notin {"none", "returned"}
    /\ ~sCtx
    /\ sCtx' = TRUE
    /\ UNCHANGED <<relayVars, other, rfbVars, mockVars, srv, lis, webRoot, sPc, gPc, routes,
                   logs, sErr, exit>>

\* ServeCancel waiting for nothing
ServeCancel_Unprompted ==
    /\ gPc = "waiting"
    /\ gPc' = "done"
    /\ lis' = IF srv = "listening" THEN "closed" ELSE lis
    /\ srv' = "closed"
    /\ UNCHANGED <<relayVars, other, rfbVars, mockVars, webRoot, sPc, sCtx, routes, logs, sErr,
                   exit>>

\* the shutdown goroutine: <-ctx.Done(); s.server.Close(). Close marks the
\* server closed and closes the listener it has taken and the connections
\* the http.Server holds. A connection upgraded to a WebSocket has been
\* taken over from the http.Server, and the context of its request, the one
\* handleConnection gets, does not descend from Serve's ctx
ServeCancel ==
    /\ gPc = "waiting"
    /\ sCtx
    /\ gPc' = "done"
    /\ lis' = IF srv = "listening" THEN "closed" ELSE lis
    /\ srv' = "closed"
    /\ UNCHANGED <<relayVars, other, rfbVars, mockVars, webRoot, sPc, sCtx, routes, logs, sErr,
                   exit>>

\* main of cmd/websockify after Serve: if err := server.Serve(ctx);
\* err != nil { log.Fatalf(...) }; log.Fatalf exits with code 1, returning
\* from main with code 0
MainExit ==
    /\ sPc = "returned"
    /\ exit = "none"
    /\ exit' = IF sErr = "nil" THEN "0" ELSE "1"
    /\ UNCHANGED <<relayVars, other, rfbVars, mockVars, srv, lis, webRoot, sPc, sCtx, gPc,
                   routes, logs, sErr>>

\* ---------------------------------------------------------------- faults

\* a runtime panic inside forwardWeb's loop: the stack unwinds to the
\* deferred function, which recovers it
FWPanic ==
    /\ fWpc \in {"top", "read", "reading", "write"}
    /\ fWpc' = "exit"
    /\ fWwhy' = "panic"
    /\ UNCHANGED <<serverVars,
                   wsReadErr, fWerr, handlerVars, connVars, ctxVars, supVars, done,
                   fTVars, tcpInVars, t2wVars, wsInVars, w2tVars>>

\* a runtime panic inside forwardTCP's loop: the deferred function sends on
\* done and does not recover, the panic leaves the goroutine
FTPanic ==
    /\ fTpc \in {"top", "read", "reading", "write"}
    /\ Crash

\* ----------------------------------------------------------- environment

\* the owner of the request context cancels it
CancelParent ==
    /\ ~parentCancelled
    /\ hpc # "returned"
    /\ parentCancelled' = TRUE
    /\ UNCHANGED <<serverVars,
                   handlerVars, connVars, cancelCalled, supVars, done, fTVars,
                   fWVars, tcpInVars, t2wVars, wsInVars, w2tVars>>

\* the target sends k more bytes
TcpPeerSend(k) ==
    /\ tcpState = "open"
    /\ tcpPeer = "open"
    /\ tcpSends + wsSends < MaxSends
    /\ tcpSends' = tcpSends + 1
    /\ tcpSent' = tcpSent + k
    /\ UNCHANGED <<serverVars,
                   handlerVars, connVars, ctxVars, supVars, done, fTVars,
                   fWVars, tcpPeer, t2wVars, wsInVars, w2tVars>>

\* the target closes its side (EOF) or the connection breaks (reset); which
\* of them it was shows in what Read and Write return
TcpPeerEnd ==
    /\ tcpState = "open"
    /\ tcpPeer = "open"
    /\ tcpPeer' = "gone"
    /\ UNCHANGED <<serverVars,
                   handlerVars, connVars, ctxVars, supVars, done, fTVars,
                   fWVars, tcpSends, tcpSent, t2wVars, wsInVars, w2tVars>>

\* the client sends one text or binary message of k payload bytes
WsPeerSend(t, k) ==
    /\ wsState = "open"
    /\ wsPeer = "open"
    /\ tcpSends + wsSends < MaxSends
    /\ wsSends' = wsSends + 1
    /\ wsSent' = wsSent + k
    /\ wsIn' = Append(wsIn, [type |-> t, off |-> wsSent, n |-> k])
    /\ UNCHANGED <<serverVars,
                   handlerVars, connVars, ctxVars, supVars, done, fTVars,
                   fWVars, tcpInVars, t2wVars, wsPeer, w2tVars>>

\* the client closes (normal, going away), its connection drops (abnormal
\* closure) or breaks in another way; which of them it was shows in the error
\* ReadMessage returns
WsPeerEnd ==
    /\ wsState = "open"
    /\ wsPeer = "open"
    /\ wsPeer' = "gone"
    /\ UNCHANGED <<serverVars,
                   handlerVars, connVars, ctxVars, supVars, done, fTVars,
                   fWVars, tcpInVars, t2wVars, wsSends, wsSent, wsIn,
                   w2tVars>>

\* --------------------------------------------------------- specification

Handler == Upgrade \/ Dial \/ DialFailClose \/ HandlerReturn

Supervisor == HCSpawnTCP \/ HCSpawnWeb \/ HCSelect \/ HCCloseTCP \/ HCCloseWS \/ HCCancel

ForwardTCP == FTTop \/ FTReadStart \/ FTReadReturn \/ FTWriteClosed \/ FTWrite \/ FTExit

ForwardWeb == FWTop \/ FWReadStart \/ FWReadReturn \/ FWWriteClosed \/ FWWrite \/ FWExit

Environment ==
    \/ CancelParent
    \/ \E k \in TcpChunkSizes : TcpPeerSend(k)
    \/ TcpPeerEnd
    \/ \E t \in WsMsgTypes, k \in WsMsgSizes : WsPeerSend(t, k)
    \/ WsPeerEnd

Next == Handler \/ Supervisor \/ ForwardTCP \/ ForwardWeb \/ Environment

Spec == Init /\ [][Next]_vars

\* The Go scheduler runs every runnable goroutine, a read returns by its
\* deadline and an operation on a closed conn fails at once; a write on an
\* open conn may stay blocked, and the peers and the owner of the request
\* context are free to do nothing.
Fairness ==
    /\ WF_vars(Handler)
    /\ WF_vars(Supervisor)
    /\ WF_vars(FTTop \/ FTReadStart \/ FTReadReturn \/ FTWriteClosed \/ FTExit)
    /\ WF_vars(FWTop \/ FWReadStart \/ FWReadReturn \/ FWWriteClosed \/ FWExit)

FairSpec == Spec /\ Fairness

\* two relays on one Server
RelaysNext == Next \/ OtherServe \/ OtherStop \/ OtherTeardown

RelaysSpec == Init /\ [][RelaysNext]_vars

\* the relay for a request with any Origin value
AdmissionInit ==
    /\ origin \in AnyOrigins
    /\ webRoot = NoPath
    /\ NoRfbInput
    /\ InitRelay

AdmissionSpec == AdmissionInit /\ [][Next]_vars

\* the relay under a Server run by Serve(ctx)
ServeSteps == ServeGetwd \/ ServeRoutes \/ ServeSpawn \/ ServeListen \/ ServeTrack \/ ServeReturn

ServeNext == Next \/ ServeSteps \/ CancelServe \/ ServeCancel

ServeSpec == Init /\ [][ServeNext]_vars /\ Fairness

\* the relay with a forwardWeb that may panic anywhere in its loop
WebFaultNext == Next \/ FWPanic

WebFaultSpec == Init /\ [][WebFaultNext]_vars /\ Fairness

\* the relay with forwarders that may panic anywhere in their loops
FaultNext == Next \/ FWPanic \/ FTPanic

FaultSpec == Init /\ [][FaultNext]_vars /\ Fairness

\* Serve run by cmd/websockify's main, no request under way. The goroutines
\* are scheduled; the owner of ctx is free never to cancel it.
StandaloneInit ==
    /\ origin \in Origins
    /\ webRoot \in WebRoots
    /\ NoRfbInput
    /\ InitRelay

StandaloneNext == ServeSteps \/ CancelServe \/ ServeCancel \/ MainExit

StandaloneSpec ==
    /\ StandaloneInit
    /\ [][StandaloneNext]_vars
    /\ WF_vars(ServeSteps)
    /\ WF_vars(ServeCancel)
    /\ WF_vars(MainExit)

\* the relay with nothing but handleConnection sure to run: a forwarder may
\* stay in a read or a write for ever
SupervisorSpec == Spec /\ WF_vars(Supervisor)

\* calls of package rfb, no relay and no Serve under way
RfbIdle ==
    /\ origin = ""
    /\ webRoot = NoPath
    /\ NoVncClient
    /\ InitRelay

LengthInit ==
    /\ messageType \in MessageTypes
    /\ data \in LengthData
    /\ pf = DefaultPixelFormat
    /\ RfbIdle

LengthSpec == LengthInit /\ [][CallGetMessageLength]_vars

FormatInit ==
    /\ messageType = SetPixelFormat
    /\ data \in RawMessages
    /\ pf \in PixelFormats
    /\ RfbIdle

FormatNext == CallCreateSetPixelFormat \/ CallParseSetPixelFormat

FormatSpec == FormatInit /\ [][FormatNext]_vars

PixelInit ==
    /\ messageType = 0
    /\ data \in Pixels
    /\ pf = RGB565PixelFormat
    /\ RfbIdle

PixelNext == CallConvertPixelFormat \/ CallConvertPixelToRGBA

PixelSpec == PixelInit /\ [][PixelNext]_vars

\* component maxima of a target format: 1, 5, 8 bits, the last maximum whose
\* product with 255 fits 16 bits, the next one, 10 and 16 bits
ScaleMaxima == {1, 31, 255, 257, 258, 1023, 65535}

\* 32-bit formats with one colour component, at shift 0
ScaleFormats ==
    {[BitsPerPixel |-> 32, Depth |-> 16, BigEndianFlag |-> e,
      TrueColorFlag |-> 1,
      RedMax |-> IF c = 3 THEN m ELSE 0,
      GreenMax |-> IF c = 2 THEN m ELSE 0,
      BlueMax |-> IF c = 1 THEN m ELSE 0,
      RedShift |-> 0, GreenShift |-> 0, BlueShift |-> 0,
      Padding |-> <<0, 0, 0>>] :
        c \in 1 .. 3, m \in ScaleMaxima, e \in {0, 1}}

\* one BGRA pixel: a grey of every level
ScalePixels == {<<v, v, v, 255>> : v \in Byte}

ScaleInit ==
    /\ messageType = 0
    /\ data \in ScalePixels
    /\ pf \in ScaleFormats
    /\ RfbIdle

ScaleSpec == ScaleInit /\ [][CallConvertPixelFormat]_vars

\* ------------------------------------------------------ mock VNC server
\* handleVNCConnection after its handshake: the read loop and the framing
\* of the client's messages. The FramebufferUpdate the server writes back
\* for a FramebufferUpdateRequest is not kept.

\* readBuffer := make([]byte, 1024)
ReadBufferSize == 1024

\* getMessageLength(messageType, data): n = -1 asks for more data
getMessageLength(mt, d) ==
    LET r == GetMessageLength(mt, d)
    IN IF r.err THEN [n |-> -1, err |-> TRUE]
       ELSE IF r.n = 0 /\ Len(d) < 8 THEN [n |-> -1, err |-> FALSE]
       ELSE [n |-> r.n, err |-> FALSE]

\* handleVNCMessage(vncConn, data) with f = vncConn.pixelFormat: the pixel
\* format afterwards and whether an error returns
handleVNCMessage(f, d) ==
    IF Len(d) = 0 THEN [pf |-> f, err |-> FALSE]
    ELSE CASE At(d, 0) = SetPixelFormat ->
                LET r == ParseSetPixelFormat(d)
                IN IF r.err THEN [pf |-> f, err |-> TRUE]
                   ELSE [pf |-> r.pf, err |-> FALSE]
           [] At(d, 0) \in {SetEncodings, FramebufferUpdateRequest, KeyEvent,
                            PointerEvent, ClientCutText} ->
                [pf |-> f, err |-> FALSE]
           [] OTHER -> [pf |-> f, err |-> TRUE]

RECURSIVE processCompleteMessages(_, _, _)
\* processCompleteMessages(vncConn) with vncConn.buffer = buf, the messages
\* hd handled so far and vncConn.pixelFormat = f
processCompleteMessages(buf, hd, f) ==
    IF Len(buf) = 0
    THEN [buffer |-> buf, handled |-> hd, pf |-> f, err |-> FALSE]
    ELSE LET expected == getMessageLength(At(buf, 0), buf)
         IN IF expected.err
            THEN [buffer |-> buf, handled |-> hd, pf |-> f, err |-> TRUE]
            ELSE IF expected.n = -1 \/ Len(buf) < expected.n
            THEN [buffer |-> buf, handled |-> hd, pf |-> f, err |-> FALSE]
            ELSE LET messageData == SubSeq(buf, 1, expected.n)
                     h == handleVNCMessage(f, messageData)
                 IN IF h.err
                    THEN [buffer |-> buf, handled |-> Append(hd, messageData),
                          pf |-> f, err |-> TRUE]
                    ELSE processCompleteMessages(
                             SubSeq(buf, expected.n + 1, Len(buf)),
                             Append(hd, messageData), h.pf)

\* n, err := vncConn.conn.Read(readBuffer) returns n > 0 of the client's
\* bytes, however the stream was cut; they are appended to vncConn.buffer
\* and processCompleteMessages runs; its error ends the connection
HandleVNCRead ==
    /\ vncPc = "reading"
    /\ stream # <<>>
    /\ \E n \in 1 .. Min(Len(stream), ReadBufferSize) :
          LET r == processCompleteMessages(vncBuffer \o SubSeq(stream, 1, n),
                                           handled, pf)
          IN /\ stream' = SubSeq(stream, n + 1, Len(stream))
             /\ vncBuffer' = r.buffer
             /\ handled' = r.handled
             /\ pf' = r.pf
             /\ vncPc' = IF r.err THEN "failed" ELSE "reading"
    /\ UNCHANGED <<relayVars, other, serveVars, messageType, data, ret>>

\* vncConn.conn.Read returns an error: the client has closed after its last
\* byte, or 30 s have passed
HandleVNCReadErr ==
    /\ vncPc = "reading"
    /\ stream = <<>>
    /\ vncPc' = "ended"
    /\ UNCHANGED <<relayVars, other, serveVars, rfbVars, stream, vncBuffer,
                   handled>>

\* the client messages of the protocol, one of each type, the two of
\* variable length with a count of 1 and SetEncodings also with none
ClientMessages ==
    {CreateSetPixelFormat(RGB565PixelFormat),
     <<SetEncodings, 0, 0, 0>>,
     <<SetEncodings, 0, 0, 1, 0, 0, 0, 0>>,
     <<FramebufferUpdateRequest, 0, 0, 0, 0, 0, 0, 1, 0, 1>>,
     <<KeyEvent, 1, 0, 0, 0, 0, 0, 65>>,
     <<PointerEvent, 0, 0, 1, 0, 2>>,
     <<ClientCutText, 0, 0, 0, 0, 0, 0, 1, 97>>}

\* what a client sends: one message, or two
Streams == ClientMessages \cup {a \o b : a \in ClientMessages, b \in ClientMessages}

VncInit ==
    /\ origin = ""
    /\ webRoot = NoPath
    /\ messageType = 0
    /\ data = <<>>
    /\ pf = DefaultPixelFormat
    /\ stream \in Streams
    /\ vncBuffer = <<>>
    /\ handled = <<>>
    /\ vncPc = "reading"
    /\ InitRelay

VncNext == HandleVNCRead \/ HandleVNCReadErr

VncSpec == VncInit /\ [][VncNext]_vars

\* FairSpec with a target that drains what is written to it: a
\* tcpConn.Write on the open conn returns
HealthySpec == Spec /\ Fairness /\ WF_vars(FWWrite)

TypeOK ==
    /\ hpc \in {"start", "dial", "dialfail", "supervise", "returned", "crashed"}
    /\ supPc \in {"idle", "start", "spawnWeb", "select", "closeTCP", "closeWS", "cancel", "returned", "crashed"}
    /\ fTpc \in {"idle", "top", "read", "reading", "write", "exit", "returned", "crashed"}
    /\ fWpc \in {"idle", "top", "read", "reading", "write", "exit", "returned", "crashed"}
    /\ fTwhy \in {"none", "cancel_top", "cancel_timeout", "read_err", "write_err"}
    /\ fWwhy \in {"none", "cancel_top", "cancel_timeout", "read_err", "write_err", "ws_close", "panic"}
    /\ wsReadErr \in BOOLEAN
    /\ fWerr \in WsPeerEnds \cup {"none"}
    /\ other \in {"none", "up", "stopping", "down"}
    /\ srv \in {"none", "listening", "closed"}
    /\ lis \in {"none", "open", "closed"}
    /\ webRoot \in WebRoots
    /\ sPc \in {"none", "switch", "spawn", "listen", "track", "accept", "returned"}
    /\ sCtx \in BOOLEAN
    /\ gPc \in {"none", "waiting", "done"}
    /\ routes \subseteq {"/", "/websockify"}
    /\ sErr \in {"none", "nil", "getwd", "bind", "ErrServerClosed"}
    /\ exit \in {"none", "0", "1"}
    /\ messageType \in Byte
    /\ vncPc \in {"idle", "reading", "failed", "ended"}
    /\ ret.fn \in {"none", "GetMessageLength", "CreateSetPixelFormat",
                   "ParseSetPixelFormat", "ConvertPixelFormat",
                   "ConvertPixelToRGBA"}
    /\ done \in 0..DoneCap
    /\ wsState \in {"none", "open", "closed"}
    /\ tcpState \in {"none", "open", "closed"}

\* ---------------------------------------------------------------- claims

BothClosed == tcpState = "closed" /\ wsState = "closed"

\* C1: whenever handleConnection has returned, by whichever select case it
\* woke, the TCP conn and the WebSocket conn are both closed.
C1_ClosedOnReturn == supPc = "returned" => BothClosed

C1_Witness == supPc = "returned" /\ hpc = "supervise" /\ BothClosed

\* a forwarder has just seen a read or a write fail, or forwardWeb a close
\* error
FailureObserved ==
    \/ fTwhy \in {"read_err", "write_err"}
    \/ fWwhy \in {"read_err", "write_err", "ws_close"}

\* C2: once a forwarder of a running relay has seen a read or write fail or
\* a close error, or connCtx is done, handleConnection eventually has closed
\* both conns and returned.
C2_PairDestroyed ==
    (supPc # "idle" /\ (FailureObserved \/ CtxDone))
        ~> (supPc = "returned" /\ BothClosed)

C2_Witness ==
    /\ supPc = "returned"
    /\ ~parentCancelled
    /\ fWpc = "returned"
    /\ fTpc \notin {"idle", "returned"}
    /\ BothClosed

\* neither peer has sent, closed or failed
PeersIdle == tcpSends = 0 /\ wsSends = 0 /\ tcpPeer = "open" /\ wsPeer = "open"

\* C3: when the request context is cancelled while ServeHTTP is in
\* handleConnection, handleConnection eventually returns with both conns
\* closed; nothing from the peers is needed for it.
C3_CancelMidStream ==
    (parentCancelled /\ hpc = "supervise")
        ~> (supPc = "returned" /\ BothClosed)

C3_Witness ==
    /\ parentCancelled
    /\ PeersIdle
    /\ supPc = "returned"
    /\ BothClosed

\* how far a forwarder is from its return once connCtx is done: it finishes
\* the read it was about to start and the write of what that read returned,
\* meets the ctx check and returns
Rank(pc) ==
    CASE pc = "idle" -> 6
      [] pc = "read" -> 5
      [] pc = "reading" -> 4
      [] pc = "write" -> 3
      [] pc = "top" -> 2
      [] pc = "exit" -> 1
      [] pc = "returned" -> 0

\* C4: with connCtx done every step of a forwarder brings it nearer to its
\* return: it never passes a ctx check again, so the only read it still
\* starts is the one whose check it had passed before the cancellation, and
\* when that read times out it returns; and both forwarders do return.
C4_CancelLatency ==
    /\ [][CtxDone => /\ Rank(fTpc') <= Rank(fTpc)
                     /\ Rank(fWpc') <= Rank(fWpc)]_vars
    /\ (CtxDone /\ fTpc # "idle") ~> (fTpc = "returned" /\ fWpc = "returned")

C4_Witness ==
    /\ parentCancelled
    /\ ~cancelCalled
    /\ fTpc = "read"
    /\ fWpc = "read"

\* C5 as stated: when handleConnection has returned, forwardTCP and
\* forwardWeb have both returned.
C5_BothForwardersReturned ==
    supPc = "returned" => (fTpc = "returned" /\ fWpc = "returned")

\* C5 amended: when handleConnection has returned, a forwarder has returned
\* or the request context is cancelled; the other forwarder may still be
\* running.
C5_OneForwarderReturned ==
    supPc = "returned" =>
        (fTpc = "returned" \/ fWpc = "returned" \/ parentCancelled)

C5_Witness ==
    /\ supPc = "returned"
    /\ ~parentCancelled
    /\ fTpc = "returned"
    /\ fWpc = "reading"

C7_ForwardersReturn ==
    (supPc = "returned") ~> (fTpc = "returned" /\ fWpc = "returned")

C7_Witness ==
    /\ hpc = "returned"
    /\ supPc = "returned"
    /\ fTpc = "returned"
    /\ fWpc = "returned"
    /\ done = 1

\* net.Dial has returned an error
DialFailed == dials > 0 /\ tcpState = "none"

\* C8: an upgraded request is dialed exactly once; after a failed dial the
\* WebSocket conn is closed when ServeHTTP returns, and handleConnection and
\* the forwarders are never started.
C8_DialOnceAndContain ==
    /\ dials <= 1
    /\ (hpc = "returned" /\ wsState # "none") => dials = 1
    /\ DialFailed => /\ supPc = "idle"
                     /\ fTpc = "idle"
                     /\ fWpc = "idle"
                     /\ hpc \in {"dialfail", "returned"}
                     /\ (hpc = "returned" => wsState = "closed")

C8_Witness ==
    /\ DialFailed
    /\ hpc = "returned"
    /\ wsState = "closed"
    /\ wsCloses = 1

\* C9: without a successful upgrade there is no dial, no handleConnection
\* and no forwarder, and ServeHTTP returns from the failed upgrade.
C9_NoDialWithoutUpgrade ==
    wsState = "none" => /\ dials = 0
                        /\ tcpState = "none"
                        /\ supPc = "idle"
                        /\ fTpc = "idle"
                        /\ fWpc = "idle"
                        /\ hpc \in {"start", "returned"}

C9_Witness ==
    /\ hpc = "returned"
    /\ wsState = "none"
    /\ dials = 0

\* C10: the messages sent on the WebSocket are, one for one and in order,
\* the successful TCP reads (all but the last read while its message is being
\* written or after that write failed), each a binary message of exactly the
\* bytes of its read and never longer than the read buffer.
C10_OneMessagePerRead ==
    /\ Len(wsOut) \in {Len(tcpReads), Len(tcpReads) - 1}
    /\ (fTpc \in {"idle", "top", "read", "reading"}
        \/ fTwhy \in {"cancel_top", "cancel_timeout", "read_err"})
           => Len(wsOut) = Len(tcpReads)
    /\ \A i \in 1..Len(wsOut) :
          /\ wsOut[i] = [type |-> "binary", off |-> tcpReads[i].off,
                         n |-> tcpReads[i].n]
          /\ wsOut[i].n > 0
          /\ wsOut[i].n <= TcpBufferSize

C10_Witness ==
    /\ Len(wsOut) = 2
    /\ wsOut[1].n = TcpBufferSize
    /\ wsOut[2].n = 1
    /\ wsOut[2].off = TcpBufferSize

\* the payload bytes of a received message, its type dropped
Payload(m) == [off |-> m.off, n |-> m.n]

\* the messages ReadMessage has returned are the client's, in the order it
\* sent them and none skipped
InReceiveOrder ==
    \A i \in 1..Len(wsReads) :
        wsReads[i].off = IF i = 1 THEN 0
                         ELSE wsReads[i - 1].off + wsReads[i - 1].n

Contiguous(seq) ==
    \A i \in 1..Len(seq) :
        /\ seq[i].n > 0
        /\ seq[i].off = IF i = 1 THEN 0 ELSE seq[i - 1].off + seq[i - 1].n

\* number of bytes a contiguous seq carries
Delivered(seq) ==
    IF seq = <<>> THEN 0 ELSE seq[Len(seq)].off + seq[Len(seq)].n

\* both forwarders have returned: nothing more is relayed
RelayOver == fTpc = "returned" /\ fWpc = "returned"

ClientClosed == wsPeer = "gone" /\ tcpPeer = "open" /\ ~parentCancelled

\* after the client's close the TCP conn gets closed, unless the target
\* ends or the request context is cancelled first
ClosedAfterClientClose ==
    (wsPeer = "gone" /\ supPc # "idle")
        ~> (tcpState = "closed" \/ tcpPeer = "gone" \/ parentCancelled)

\* C13: when the client has closed, with the target up and no
\* cancellation, the TCP conn is closed only after every byte the client
\* sent has been written to it, and it does get closed.
C13_AllWrittenThenClosed ==
    /\ []((ClientClosed /\ tcpState = "closed")
            => Delivered(tcpOut) = wsSent)
    /\ ClosedAfterClientClose

\* what a forwarder has observed when it stops reading: a read error that is
\* no timeout (a close error is one), or connCtx done at the top of the loop
\* or after a timed-out read
StopObserved == {"read_err", "ws_close", "cancel_top", "cancel_timeout"}

\* C14: a forwarder that has observed a read error other than a timeout, or
\* connCtx done, leaves its loop at once and writes nothing from then on,
\* nor after it has returned.
C14_NoWriteAfterStop ==
    /\ []((fTwhy # "none" => fTpc = "exit")
          /\ (fWwhy # "none" => fWpc = "exit"))
    /\ [][((fTwhy \in StopObserved \/ fTpc = "returned")
               => (wsOut' = wsOut /\ fTpc' \in {"exit", "returned"}))
           /\ ((fWwhy \in StopObserved \/ fWpc = "returned")
               => (tcpOut' = tcpOut /\ fWpc' \in {"exit", "returned"}))]_vars

C14_Witness ==
    /\ fTwhy = "read_err"
    /\ tcpState = "open"
    /\ Len(wsOut) = 1
    /\ fWwhy = "cancel_top"

\* handleConnection is waiting and both forwarders are in their loops, with
\* both conns open
RelayUp ==
    /\ supPc \in {"start", "spawnWeb", "select"}
    /\ fTpc \notin {"exit", "returned"}
    /\ fWpc \notin {"exit", "returned"}
    /\ tcpState = "open"
    /\ wsState = "open"

\* C15: a relay whose peers stay connected and send nothing, and whose
\* request context is not cancelled, stays up: the read timeouts make no
\* forwarder leave its loop or signal done, and no conn is closed.
C15_IdleRelayStaysUp ==
    (tcpState # "none" /\ PeersIdle /\ ~parentCancelled) => RelayUp

\* C16: a panic in forwardWeb's loop is recovered by the deferred function,
\* which still sends on done and lets forwardWeb return; handleConnection
\* then closes both conns and returns, as after any failure.
C16_PanicRecovered ==
    /\ [][(fWwhy = "panic" /\ fWpc' # fWpc)
             => (fWpc' = "returned" /\ done' = done + 1)]_vars
    /\ (fWwhy = "panic") ~> (supPc = "returned" /\ BothClosed)

C16_Witness ==
    /\ supPc = "returned"
    /\ BothClosed
    /\ fWpc = "returned"
    /\ ~parentCancelled
    /\ ~wsReadErr
    /\ tcpPeer = "open"
    /\ wsPeer = "open"

\* C17: no panic of a forwarder ends the program: the HTTP server and the
\* relays go on.
C17_PanicNeverEndsProgram == hpc # "crashed"

C19_ServeCancelEndsRelays ==
    /\ []((srv = "closed" /\ supPc # "idle") => CtxDone)
    /\ (srv = "closed" /\ supPc # "idle")
          ~> (supPc = "returned" /\ BothClosed)

\* C20: once Upgrade has answered an otherwise valid upgrade request, the
\* request has been upgraded exactly if its Origin value is not empty,
\* whatever else that value is.
C20_OriginAdmission ==
    (handshakeOK /\ hpc # "start") => (wsState # "none" <=> origin # "")

C20_Witness ==
    /\ handshakeOK
    /\ origin = "https://other.example"
    /\ wsState = "open"
    /\ supPc = "select"

Refused == <<"refusing", "please", "exiting">>

\* C21: with the web root equal to the working directory, Serve never binds
\* a listener, registers a route or starts its shutdown goroutine, and,
\* the working directory known, it returns nil having logged the refusal.
C21_CwdRefused ==
    webRoot = Cwd =>
        /\ lis = "none"
        /\ routes = {}
        /\ gPc = "none"
        /\ sPc \in {"none", "switch", "returned"}
        /\ (sPc = "returned" /\ sErr # "getwd") =>
               (sErr = "nil" /\ logs = Refused)

C21_Witness ==
    /\ webRoot = Cwd
    /\ sPc = "returned"
    /\ sErr = "nil"
    /\ logs = Refused
    /\ lis = "none"

\* C22: no static-file route is ever registered for a web root that denotes
\* the working directory, whether by its absolute path or by an alias of it
\* such as "." or the path with a trailing slash.
C22_NeverServesCwd == "/" \in routes => ServedDir(webRoot) # Cwd

C24_CleanShutdownExitsZero ==
    (sCtx /\ sErr = "ErrServerClosed" /\ exit # "none") => exit = "0"

\* C25: GetMessageLength returns 20 for SetPixelFormat, 10 for
\* FramebufferUpdateRequest, 8 for KeyEvent, 6 for PointerEvent, 4 + 4n for
\* SetEncodings with n the big-endian count in bytes 2-3, 8 + len for
\* ClientCutText with len the big-endian value in bytes 4-7, each with no
\* error; and length 0 with an error for any other type, for SetEncodings
\* with fewer than 4 bytes and for ClientCutText with fewer than 8.
C25_MessageLength ==
    ret.fn = "GetMessageLength" =>
        LET d == data
            Is(n) == ret.res = [n |-> n, err |-> FALSE]
            Fails == ret.res = [n |-> 0, err |-> TRUE]
        IN CASE messageType = 0 -> Is(20)
             [] messageType = 3 -> Is(10)
             [] messageType = 4 -> Is(8)
             [] messageType = 5 -> Is(6)
             [] messageType = 2 ->
                   IF Len(d) < 4 THEN Fails
                   ELSE Is(4 + 4 * (256 * d[3] + d[4]))
             [] messageType = 6 ->
                   IF Len(d) < 8 THEN Fails
                   ELSE Is(8 + 16777216 * d[5] + 65536 * d[6] + 256 * d[7]
                             + d[8])
             [] OTHER -> Fails

C25_Witness ==
    /\ ret.fn = "GetMessageLength"
    /\ messageType = 6
    /\ Len(data) = 8
    /\ ret.res = [n |-> 8 + 16777216 + 255, err |-> FALSE]

\* C26: CreateSetPixelFormat(pf) is a message of 20 bytes with type byte 0
\* and bytes 1-3 zero; ParseSetPixelFormat of it returns pf and no error;
\* ParseSetPixelFormat returns an error exactly for data of another length
\* than 20.
C26_SetPixelFormatRoundTrip ==
    /\ [](ret.fn = "CreateSetPixelFormat" =>
            /\ Len(ret.msg) = 20
            /\ \A i \in 1 .. 4 : ret.msg[i] = 0)
    /\ [](ret.fn = "ParseSetPixelFormat" =>
            (ret.res.err <=> Len(ret.in) # 20))
    /\ [][(ret.fn = "CreateSetPixelFormat"
              /\ ret'.fn = "ParseSetPixelFormat") =>
            ret'.res = [pf |-> pf, err |-> FALSE]]_vars

C26_Witness ==
    /\ ret.fn = "ParseSetPixelFormat"
    /\ ret.in # data
    /\ pf.Padding = <<1, 2, 3>>
    /\ pf.RedMax = 65535
    /\ ret.res = [pf |-> pf, err |-> FALSE]

Abs(x) == IF x < 0 THEN -x ELSE x

\* each colour component of the pixel converted to RGB565 and back is
\* within tol of the original, and alpha is 255
RoundTripWithin(tol) ==
    (ret.fn = "ConvertPixelToRGBA" /\ pf = RGB565PixelFormat) =>
        /\ Abs(ret.rgba.B - data[1]) <= tol
        /\ Abs(ret.rgba.G - data[2]) <= tol
        /\ Abs(ret.rgba.R - data[3]) <= tol
        /\ ret.rgba.A = 255

C28_DoneNeverBlocksNorDrops ==
    /\ [](done <= 2)
    /\ []((fTpc = "exit" => ENABLED FTExit) /\ (fWpc = "exit" => ENABLED FWExit))
    /\ [][(fTpc = "exit" /\ fTpc' = "returned") => done' = done + 1]_vars
    /\ [][(fWpc = "exit" /\ fWpc' = "returned") => done' = done + 1]_vars
    /\ [][done' > done =>
            \/ (fTpc = "exit" /\ fTpc' = "returned" /\ fWpc' = fWpc)
            \/ (fWpc = "exit" /\ fWpc' = "returned" /\ fTpc' = fTpc)]_vars
    /\ [][(fTpc = "returned" => fTpc' = "returned")
          /\ (fWpc = "returned" => fWpc' = "returned")]_vars

C28_Witness ==
    /\ supPc = "returned"
    /\ fTpc = "returned"
    /\ fWpc = "returned"
    /\ done = 2

\* handleConnection's select can go on
Woken == supPc = "select" /\ (CtxDone \/ done > 0)

\* C29: once connCtx is done or a done signal is there, handleConnection
\* returns, whether or not the forwarders take another step.
C29_ReturnsWithoutSibling == Woken ~> supPc = "returned"

C29_Witness ==
    /\ supPc = "returned"
    /\ fTpc = "returned"
    /\ fWpc = "write"
    /\ wsState = "closed"

\* C30: handleConnection cancels connCtx before it closes an endpoint: no
\* endpoint has been closed while connCtx is not done.
C30_CancelBeforeClose ==
    (tcpCloses > 0 \/ wsCloses > 0) /\ supPc # "idle" => CtxDone

\* a step of forwardTCP alone, of forwardWeb alone
StepOfFT == fTpc' # fTpc /\ fWpc' = fWpc
StepOfFW == fWpc' # fWpc /\ fTpc' = fTpc

\* C31: a data message goes out on the WebSocket only in forwardTCP's write
\* step and bytes go out on the TCP conn only in forwardWeb's write step; the
\* TCP conn is read only in forwardTCP's read step and the WebSocket only in
\* forwardWeb's; so each endpoint has one writer and one reader, and no two
\* writes or two reads on it are under way together.
C31_SingleOwner ==
    [][/\ (wsOut' # wsOut) => (fTpc = "write" /\ StepOfFT)
       /\ (tcpOut' # tcpOut) => (fWpc = "write" /\ StepOfFW)
       /\ (tcpReads' # tcpReads) => (fTpc = "reading" /\ StepOfFT)
       /\ (wsReads' # wsReads \/ Len(wsIn') < Len(wsIn))
             => (fWpc = "reading" /\ StepOfFW)]_vars

C31_Witness ==
    /\ Len(wsOut) = 1
    /\ fTpc = "reading"
    /\ fWpc = "reading"
    /\ tcpOut = <<>>

CloseErrors == {"normal", "goingaway", "abnormal"}

\* C33: a close error from ReadMessage, be it a normal closure, a going-away
\* or an abnormal closure, takes forwardWeb out of its loop by the branch
\* that logs the closure of the WebSocket.
C33_CloseErrorsAlike ==
    (fWpc = "exit" /\ fWerr \in CloseErrors) => fWwhy = "ws_close"

\* the positions of a forwarder inside its loop
InLoop == {"top", "read", "reading", "write"}

\* the five ways a forwarder leaves its loop
ExitPaths ==
    {"read_err", "write_err", "ws_close", "cancel_top", "cancel_timeout"}

\* C36: a forwarder leaves its loop only towards its deferred function, by a
\* read error, a write error, a WebSocket close, or a cancellation seen at
\* the top of the loop or after a timed-out read (forwardWeb also by a
\* recovered panic); it returns only from there, and its return puts exactly
\* one signal in done, after a cancellation as after an error.
C36_EveryExitSignals ==
    /\ [][/\ (fTpc \in InLoop /\ fTpc' \notin InLoop)
              => (fTpc' = "exit" /\ fTwhy' \in ExitPaths)
          /\ (fWpc \in InLoop /\ fWpc' \notin InLoop)
              => (fWpc' = "exit" /\ fWwhy' \in ExitPaths \cup {"panic"})]_vars
    /\ [][/\ (fTpc # "returned" /\ fTpc' = "returned")
              => (fTpc = "exit" /\ done' = done + 1 /\ fWpc' = fWpc)
          /\ (fWpc # "returned" /\ fWpc' = "returned")
              => (fWpc = "exit" /\ done' = done + 1 /\ fTpc' = fTpc)]_vars
    /\ []((fTpc = "exit" /\ fTwhy \in {"cancel_top", "cancel_timeout"})
            => ENABLED (FTExit /\ done' = done + 1))
    /\ []((fWpc = "exit" /\ fWwhy \in {"cancel_top", "cancel_timeout"})
            => ENABLED (FWExit /\ done' = done + 1))

\* both forwarders have stopped on the cancellation alone, and both signals
\* are in done
C36_Witness ==
    /\ parentCancelled
    /\ supPc = "select"
    /\ tcpPeer = "open"
    /\ wsPeer = "open"
    /\ ~wsReadErr
    /\ fTpc = "returned"
    /\ fWpc = "returned"
    /\ done = 2

\* handleConnection has woken from its select
PastSelect == supPc \in {"closeTCP", "closeWS", "cancel", "returned"}

\* a forwarder has signalled done, or connCtx is done
TeardownDue == fTpc = "returned" \/ fWpc = "returned" \/ CtxDone

\* C37: handleConnection leaves its select, and closes a conn, only after a
\* forwarder has signalled done or connCtx is done; while it waits both
\* conns stay open.
C37_NoSpuriousTeardown ==
    /\ [](PastSelect => TeardownDue)
    /\ [](supPc \in {"start", "spawnWeb", "select"}
            => (tcpState = "open" /\ wsState = "open"))
    /\ [][(supPc # "idle"
            /\ (tcpCloses' > tcpCloses \/ wsCloses' > wsCloses))
              => (PastSelect /\ TeardownDue)]_vars

C37_Witness ==
    /\ supPc = "returned"
    /\ tcpCloses = 1
    /\ wsCloses = 1
    /\ ~parentCancelled
    /\ fWpc = "returned"
    /\ fTpc = "reading"

\* handleConnection is running
RelayRunning == supPc \notin {"idle", "returned"}

\* C38: ServeHTTP is inside its call of handleConnection for as long as the
\* relay runs, so its return (which ends the request, and the request
\* context with it) never comes while the relay runs; and when it has
\* returned, a WebSocket conn the upgrade made is closed.
C38_HandlerSynchronous ==
    /\ RelayRunning => hpc = "supervise"
    /\ hpc = "returned" => supPc \in {"idle", "returned"}
    /\ (hpc = "returned" /\ wsState # "none") => wsState = "closed"

C38_Witness ==
    /\ hpc = "returned"
    /\ supPc = "returned"
    /\ wsState = "closed"
    /\ cancelCalled
    /\ fTpc = "read"

\* floor(c * Max / 255), in unbounded arithmetic
Scaled(c, max) == (c * max) \div 255

\* C34: the pixel ConvertPixelFormat writes holds, for each colour component
\* c of the BGRA pixel and the target format's maximum Max of that
\* component, floor(c * Max / 255) at the component's shift, for every Max
\* up to 65535.
C34_ScalesWithoutWrap ==
    ret.fn = "ConvertPixelFormat" =>
        ReadPixelValue(ret.out, pf.BigEndianFlag)
            = BitOr(BitOr(Shl(Scaled(At(data, 2), pf.RedMax), pf.RedShift),
                          Shl(Scaled(At(data, 1), pf.GreenMax), pf.GreenShift)),
                    Shl(Scaled(At(data, 0), pf.BlueMax), pf.BlueShift))

RECURSIVE Flat(_)
\* the bytes of a sequence of messages
Flat(msgs) == IF msgs = <<>> THEN <<>> ELSE Head(msgs) \o Flat(Tail(msgs))

\* C35: on a stream of well-formed client messages the mock VNC server
\* never ends the connection over an incomplete message, and after any
\* reads the messages handled and the bytes left in vncConn.buffer are those
\* one read of the same bytes gives.
C35_FramingIndependent ==
    /\ vncPc # "failed"
    /\ LET whole == processCompleteMessages(Flat(handled) \o vncBuffer, <<>>,
                                            DefaultPixelFormat)
       IN /\ ~whole.err
          /\ whole.handled = handled
          /\ whole.buffer = vncBuffer

\* C39: once Serve has returned, by whichever path, its shutdown goroutine
\* is not left waiting: it was never started, has ended, or ends in time
\* with no cancellation of ctx to come.
C39_NoTaskLeftBehind == (sPc = "returned") ~> (gPc # "waiting")

====
